---- MODULE Spec2Model ----
(***************************************************************************)
(* Knowledge-Weaver: knowledge store lifecycle, ranked search, redaction   *)
(* on the ingestion paths and the query service with its query log.        *)
(*                                                                         *)
(* Text is a sequence of tokens.  A metadata dict is a record over a fixed *)
(* key set in which a missing key holds NoVal (NoTime for a timestamp).    *)
(* Scores are in hundredths (100 is similarity 1.0).                       *)
(***************************************************************************)
EXTENDS Integers, Sequences, FiniteSets, TLC

\* ------------------------------------------------------------------ bounds
MaxEntries == 2
MaxIndexed == 3
MaxClock == 0
MaxVec == 1
MaxQueries == 2
MaxEvents == 1
MaxCands == 1
MaxEdited == 1
MaxCallers == 2
MaxRetryArg == 4
MaxLearn == 3

\* --------------------------------------------------------- program constants
DefaultTopK == 3
DefaultThreshold == 10
BatchCap == 100
SchemaMaxLength == 100
SimScale == 100
DistUnit == 50

NoVal == "<absent>"
NoTime == 0 - 1
\* None for an optional list of tags, an optional text, an optional prediction
NoTags == <<NoVal>>
NoText == <<NoVal>>
NoPrediction == [given |-> FALSE, category |-> NoVal, tags |-> NoTags]

\* the ids entries can get
Ids == 1..(MaxEntries + MaxIndexed)
Times == 0..MaxClock
Vectors == 0..MaxVec

VARIABLES
    collection,      \* the knowledge_base collection: id -> [document, embedding, metadata]
    mergesMetadata,  \* how the index engine applies the metadatas of an update
    clock,           \* datetime.utcnow()
    resp,            \* the outcome of the last operation, as its caller sees it
    queryLog,        \* query_log.jsonl
    learningHistory, \* learning_history.jsonl
    gatewayCalls,    \* texts handed to the embedding / generation API
    lastToggle,      \* history: the last successful delete / restore of each id
    queriesProcessed, \* history: non-rejected calls of query_knowledge_base
    inflight,        \* each caller's update_entry / delete_entry call: what it read, what it wrote
    learning         \* LearningService: learning_events.json, learning_stats.json

vars == <<collection, mergesMetadata, clock, resp, queryLog, learningHistory,
          gatewayCalls, lastToggle, queriesProcessed, inflight, learning>>

\* ------------------------------------------------------------ metadata dicts
TimeKeys == {"timestamp", "deleted_at"}

BlankMeta ==
    [ url |-> NoVal, type |-> NoVal, entry_type |-> NoVal, timestamp |-> NoTime,
      verification_status |-> NoVal, is_deleted |-> NoVal, deleted_at |-> NoTime,
      category |-> NoVal, tags |-> NoVal, summary |-> NoVal,
      has_screenshot |-> NoVal, screenshot |-> NoVal ]

MetaKeys == DOMAIN BlankMeta

IsAbsent(k, v) == IF k \in TimeKeys THEN v = NoTime ELSE v = NoVal

\* dict.update(updates): the keys updates carries overwrite, the rest stay
DictUpdate(m, updates) ==
    [k \in MetaKeys |-> IF IsAbsent(k, updates[k]) THEN m[k] ELSE updates[k]]

\* ",".join(tags)
RECURSIVE JoinTags(_)
JoinTags(tags) ==
    IF tags = <<>> THEN ""
    ELSE IF Len(tags) = 1 THEN tags[1]
    ELSE tags[1] \o "," \o JoinTags(Tail(tags))

\* the requests that are inside update_entry / delete_entry at the same time
Callers == 1..MaxCallers

\* a caller that is in neither method
IdleCall ==
    [op |-> "none", phase |-> "idle", entry_id |-> 0, current_metadata |-> BlankMeta,
     ok |-> FALSE]

\* -------------------------------------------------------------- redaction
IsEmail(tok) == tok = "a@b.com"
IsPhone(tok) == tok = "555-123-4567"
IsSsn(tok) == tok = "123-45-6789"
\* \w{5,}: five or more word characters
IsWord5(tok) == tok \in {"AB123", "ab_cd", "hello", "participant", "employee",
                         "Agent_Bob", "Lead_Ann", "Questioner", "Respondent"}
\* [A-Z0-9]{5,} between word boundaries (IGNORECASE)
IsAlnum5(tok) == tok \in {"AB123", "hello", "participant", "employee",
                          "Questioner", "Respondent"}
\* a token that contains participant|patient|member (IGNORECASE)
HasParticipantKw(tok) == tok \in {"participant", "[PARTICIPANT_ID_REDACTED]"}
\* a token that contains employee|emp|staff (IGNORECASE)
HasEmployeeKw(tok) == tok \in {"employee", "[EMPLOYEE_ID_REDACTED]"}
\* what a keyword token holds before its keyword: the match starts at the
\* keyword, so this part of the token stays in the text
KwPrefix(tok) ==
    IF tok \in {"[PARTICIPANT_ID_REDACTED]", "[EMPLOYEE_ID_REDACTED]"} THEN "[" ELSE ""
\* a token that ends in ID followed by ':' or white space
EndsInIdMarker(tok) == tok \in {"ID:", "UID:"}
\* \bID[:\s]+ : the marker starts at a word boundary
IsIdMarker(tok) == tok = "ID:"
IsAgentHandle(tok) == tok = "Agent_Bob"
IsLeadHandle(tok) == tok = "Lead_Ann"

\* pattern.sub(sentinel, text) for a pattern that matches one token
RECURSIVE SubToken(_, _, _)
SubToken(IsMatch(_), sentinel, s) ==
    IF s = <<>> THEN <<>>
    ELSE <<IF IsMatch(s[1]) THEN sentinel ELSE s[1]>> \o SubToken(IsMatch, sentinel, Tail(s))

\* the end of the leftmost-shortest match of  keyword .*? ID[:\s]+ (\w{5,})
\* that starts at the first token, 0 when there is none
KeywordIdMatchEnd(HasKw(_), s) ==
    IF s = <<>> \/ ~HasKw(s[1]) THEN 0
    ELSE LET ends == {j \in 2..Len(s) : j > 2 /\ EndsInIdMarker(s[j-1]) /\ IsWord5(s[j])}
         IN IF ends = {} THEN 0 ELSE CHOOSE j \in ends : \A i \in ends : j <= i

\* patterns['participant_id'].sub(r'\1 [PARTICIPANT_ID_REDACTED]', text)
RECURSIVE SubParticipantId(_)
SubParticipantId(s) ==
    IF s = <<>> THEN <<>>
    ELSE LET e == KeywordIdMatchEnd(HasParticipantKw, s)
         IN IF e = 0 THEN <<s[1]>> \o SubParticipantId(Tail(s))
            ELSE <<KwPrefix(s[1]) \o s[e], "[PARTICIPANT_ID_REDACTED]">>
                     \o SubParticipantId(SubSeq(s, e + 1, Len(s)))

\* patterns['employee_id'].sub(r' [EMPLOYEE_ID_REDACTED]', text)
RECURSIVE SubEmployeeId(_)
SubEmployeeId(s) ==
    IF s = <<>> THEN <<>>
    ELSE LET e == KeywordIdMatchEnd(HasEmployeeKw, s)
         IN IF e = 0 THEN <<s[1]>> \o SubEmployeeId(Tail(s))
            ELSE (IF KwPrefix(s[1]) = "" THEN <<>> ELSE <<KwPrefix(s[1])>>)
                     \o <<"[EMPLOYEE_ID_REDACTED]">>
                     \o SubEmployeeId(SubSeq(s, e + 1, Len(s)))

\* patterns['generic_id'].sub('[ID_REDACTED]', text)
RECURSIVE SubGenericId(_)
SubGenericId(s) ==
    IF s = <<>> THEN <<>>
    ELSE IF Len(s) >= 2 /\ IsIdMarker(s[1]) /\ IsAlnum5(s[2])
         THEN <<"[ID_REDACTED]">> \o SubGenericId(SubSeq(s, 3, Len(s)))
         ELSE <<s[1]>> \o SubGenericId(Tail(s))

\* pattern.findall(text) for a keyword pattern: the captured id values
RECURSIVE KeywordMatches(_, _)
KeywordMatches(HasKw(_), s) ==
    IF s = <<>> THEN {}
    ELSE LET e == KeywordIdMatchEnd(HasKw, s)
         IN IF e = 0 THEN KeywordMatches(HasKw, Tail(s))
            ELSE {s[e]} \cup KeywordMatches(HasKw, SubSeq(s, e + 1, Len(s)))

\* patterns['participant_id'].findall(anonymized)
participant_matches(s) == KeywordMatches(HasParticipantKw, s)

\* patterns['employee_id'].findall(anonymized)
employee_matches(s) == KeywordMatches(HasEmployeeKw, s)

\* patterns['generic_id'].findall(anonymized)
RECURSIVE generic_matches(_)
generic_matches(s) ==
    IF s = <<>> THEN {}
    ELSE IF Len(s) >= 2 /\ IsIdMarker(s[1]) /\ IsAlnum5(s[2])
         THEN {s[2]} \cup generic_matches(SubSeq(s, 3, Len(s)))
         ELSE generic_matches(Tail(s))

anonymize_text(text) ==
    IF text = <<>> THEN text
    ELSE LET a1 == SubToken(IsEmail, "[EMAIL_REDACTED]", text)
             a2 == SubToken(IsPhone, "[PHONE_REDACTED]", a1)
             a3 == SubToken(IsSsn, "[SSN_REDACTED]", a2)
             a4 == SubParticipantId(a3)
             a5 == SubEmployeeId(a4)
             a6 == SubGenericId(a5)
             a7 == SubToken(IsAgentHandle, "Questioner", a6)
         IN SubToken(IsLeadHandle, "Respondent", a7)

\* ------------------------------------------------------ the vector index
\* collection.get(ids=[entry_id])['ids'] is non-empty
HasEntry(coll, id) == id \in DOMAIN coll

\* collection.add(ids, documents, embeddings, metadatas) for one entry
CollectionAdd(coll, id, document, embedding, metadata) ==
    [i \in DOMAIN coll \cup {id} |->
        IF i = id THEN [document |-> document, embedding |-> embedding, metadata |-> metadata]
        ELSE coll[i]]

\* collection.update(ids=[id], metadatas=[metadata]): the engine either merges
\* the given keys into the stored dict or stores the given dict as it is
CollectionUpdateMetadata(coll, id, metadata, merges) ==
    [coll EXCEPT ![id].metadata =
        IF merges THEN DictUpdate(coll[id].metadata, metadata) ELSE metadata]

\* a where filter that leaves out the is_deleted condition
MatchesWhere_IgnoresDeleted(meta, verified_only, include_deleted) ==
    verified_only => meta.verification_status = "verified_human"

\* the where filter of search
MatchesWhere(meta, verified_only, include_deleted) ==
    /\ (~include_deleted => meta.is_deleted # "True")
    /\ (verified_only => meta.verification_status = "verified_human")

\* squared L2 distance between two embeddings, in hundredths
Distance(a, b) == (a - b) * (a - b) * DistUnit

\* similarity_score = 1 - (distance / 2)
SimilarityScore(distance) == SimScale - (distance \div 2)

MinOf(a, b) == IF a <= b THEN a ELSE b

\* collection.query(n_results=k, where=...): the k nearest entries that pass
\* the filter, nearest first; entries at the same distance come in any order
NearestSets(coll, cands, q, k) ==
    {S \in SUBSET cands :
        /\ Cardinality(S) = MinOf(k, Cardinality(cands))
        /\ \A a \in S : \A b \in cands \ S :
              Distance(q, coll[a].embedding) <= Distance(q, coll[b].embedding)}

Arrangements(S) ==
    {s \in [1..Cardinality(S) -> S] : \A i, j \in 1..Cardinality(S) : s[i] = s[j] => i = j}

\* a query that takes the k nearest of all entries and then drops those the
\* filter rejects
CollectionQuery_FiltersAfter(coll, q, k, verified_only, include_deleted) ==
    UNION {{SelectSeq(s, LAMBDA id : MatchesWhere(coll[id].metadata, verified_only,
                                                  include_deleted)) :
               s \in {t \in Arrangements(S) :
                         \A i \in 1..(Len(t) - 1) :
                            Distance(q, coll[t[i]].embedding)
                               <= Distance(q, coll[t[i+1]].embedding)}}
           : S \in NearestSets(coll, DOMAIN coll, q, k)}

CollectionQuery(coll, q, k, verified_only, include_deleted) ==
    LET cands == {id \in DOMAIN coll :
                    MatchesWhere(coll[id].metadata, verified_only, include_deleted)}
    IN UNION {{s \in Arrangements(S) :
                 \A i \in 1..(Len(s) - 1) :
                    Distance(q, coll[s[i]].embedding) <= Distance(q, coll[s[i+1]].embedding)}
              : S \in NearestSets(coll, cands, q, k)}

\* the match dict search builds for one query result
MatchOf(coll, q, id) ==
    [id |-> id, document |-> coll[id].document, metadata |-> coll[id].metadata,
     similarity_score |-> SimilarityScore(Distance(q, coll[id].embedding))]

\* matches.append(...) for the results with similarity_score >= threshold
RECURSIVE AboveThreshold(_, _, _, _)
AboveThreshold(coll, q, ids, threshold) ==
    IF ids = <<>> THEN <<>>
    ELSE LET m == MatchOf(coll, q, ids[1])
             rest == AboveThreshold(coll, q, Tail(ids), threshold)
         IN IF m.similarity_score >= threshold THEN <<m>> \o rest ELSE rest

\* the sort key (verified boost, similarity_score)
VerifiedBoost(m) == IF m.metadata.verification_status = "verified_human" THEN 1 ELSE 0

\* a sort key without the verified boost
KeyLess_SimilarityOnly(a, b) == a.similarity_score < b.similarity_score

KeyLess(a, b) ==
    \/ VerifiedBoost(a) < VerifiedBoost(b)
    \/ VerifiedBoost(a) = VerifiedBoost(b) /\ a.similarity_score < b.similarity_score

\* matches.sort(key=..., reverse=True): stable, equal keys keep their order
RECURSIVE InsertDesc(_, _)
InsertDesc(m, sorted) ==
    IF sorted = <<>> THEN <<m>>
    ELSE IF KeyLess(sorted[1], m) THEN <<m>> \o sorted
    ELSE <<sorted[1]>> \o InsertDesc(m, Tail(sorted))

RECURSIVE SortMatches(_)
SortMatches(ms) ==
    IF ms = <<>> THEN <<>>
    ELSE InsertDesc(ms[Len(ms)], SortMatches(SubSeq(ms, 1, Len(ms) - 1)))

\* VectorDatabase.search: every list of matches the call can return
search(coll, q, top_k, threshold, verified_only, include_deleted) ==
    {SortMatches(AboveThreshold(coll, q, ids, threshold)) :
        ids \in CollectionQuery(coll, q, top_k, verified_only, include_deleted)}

\* a delete that writes a fresh dict instead of the entry's current metadata
delete_entry_FreshMetadata(coll, entry_id, now, merges, dbOK) ==
    IF ~dbOK \/ ~HasEntry(coll, entry_id) THEN [ok |-> FALSE, coll |-> coll]
    ELSE [ok |-> TRUE,
          coll |-> CollectionUpdateMetadata(coll, entry_id,
                       [BlankMeta EXCEPT !.is_deleted = "True", !.deleted_at = now], merges)]

\* VectorDatabase.delete_entry: [ok, coll] for the value returned and the
\* collection left behind; dbOK is false when the index engine raises
delete_entry(coll, entry_id, now, merges, dbOK) ==
    IF ~dbOK \/ ~HasEntry(coll, entry_id) THEN [ok |-> FALSE, coll |-> coll]
    ELSE LET current_metadata ==
                 [coll[entry_id].metadata EXCEPT !.is_deleted = "True", !.deleted_at = now]
         IN [ok |-> TRUE,
             coll |-> CollectionUpdateMetadata(coll, entry_id, current_metadata, merges)]

\* a restore that puts the entry back as unverified
restore_entry_Demotes(coll, entry_id, merges, dbOK) ==
    IF ~dbOK \/ ~HasEntry(coll, entry_id) THEN [ok |-> FALSE, coll |-> coll]
    ELSE LET current_metadata ==
                 [coll[entry_id].metadata EXCEPT !.is_deleted = "False", !.deleted_at = NoTime,
                                                 !.verification_status = "unverified"]
         IN [ok |-> TRUE,
             coll |-> CollectionUpdateMetadata(coll, entry_id, current_metadata, merges)]

\* VectorDatabase.restore_entry
restore_entry(coll, entry_id, merges, dbOK) ==
    IF ~dbOK \/ ~HasEntry(coll, entry_id) THEN [ok |-> FALSE, coll |-> coll]
    ELSE LET current_metadata ==
                 [coll[entry_id].metadata EXCEPT !.is_deleted = "False", !.deleted_at = NoTime]
         IN [ok |-> TRUE,
             coll |-> CollectionUpdateMetadata(coll, entry_id, current_metadata, merges)]

\* an update that stores the supplied fields in place of the entry's metadata
update_entry_ReplacesMetadata(coll, entry_id, updates, content, embedding, merges, dbOK) ==
    IF ~dbOK \/ ~HasEntry(coll, entry_id) THEN [ok |-> FALSE, coll |-> coll]
    ELSE [ok |-> TRUE,
          coll |-> CollectionUpdateMetadata(coll, entry_id, DictUpdate(BlankMeta, updates),
                                            FALSE)]

\* VectorDatabase.update_entry
update_entry(coll, entry_id, updates, content, embedding, merges, dbOK) ==
    IF ~dbOK \/ ~HasEntry(coll, entry_id) THEN [ok |-> FALSE, coll |-> coll]
    ELSE LET current_metadata == DictUpdate(coll[entry_id].metadata, updates)
             c1 == CollectionUpdateMetadata(coll, entry_id, current_metadata, merges)
             c2 == IF content # NoText THEN [c1 EXCEPT ![entry_id].document = content] ELSE c1
             c3 == IF content # NoText /\ embedding # NoTime
                   THEN [c2 EXCEPT ![entry_id].embedding = embedding] ELSE c2
         IN [ok |-> TRUE, coll |-> c3]

\* update_entry down to the index: collection.update with documents and no
\* embeddings makes the index embed the document with the collection's own
\* embedding function (own_embedding is what that gives), or raise (dbOK is
\* false), in which case update_entry returns False
update_entry_indexed(coll, entry_id, updates, content, embedding, own_embedding, merges, dbOK) ==
    LET r == update_entry(coll, entry_id, updates, content, embedding, merges, dbOK)
    IN IF r.ok /\ content # NoText /\ embedding = NoTime
       THEN [ok |-> TRUE, coll |-> [r.coll EXCEPT ![entry_id].embedding = own_embedding]]
       ELSE r

\* ------------------------------------------------------ the model gateway
\* genai.embed_content: the embedding the gateway gives a text
EmbeddingOf(text) == IF text = <<"hello">> THEN 0 ELSE 1

\* an embedding with no components
EmptyEmbedding == NoTime

\* an embedding call that answers a failure with the empty vector
generate_embedding_SilentFallback(text, embedding, embOK) ==
    [raised |-> FALSE, called |-> text # <<>>,
     embedding |-> IF text # <<>> /\ embOK THEN embedding ELSE EmptyEmbedding]

\* GeminiClient.generate_embedding: raises on empty text before any call, and
\* re-raises when the last retry fails (embOK is false); called tells whether
\* the embedding API was reached
generate_embedding(text, embedding, embOK) ==
    IF text = <<>> THEN [raised |-> TRUE, called |-> FALSE, embedding |-> EmptyEmbedding]
    ELSE IF ~embOK THEN [raised |-> TRUE, called |-> TRUE, embedding |-> EmptyEmbedding]
    ELSE [raised |-> FALSE, called |-> TRUE, embedding |-> embedding]

\* ---------------------------------------------------------------- responses
\* note is history: the step of the operation that failed ("" when none did),
\* or "unknown_id" when the id the request named was not in the store
Resp(op, outcome, status, id, results, count) ==
    [op |-> op, outcome |-> outcome, status |-> status, id |-> id,
     results |-> results, count |-> count, note |-> ""]

WithNote(r, note) == [r EXCEPT !.note = note]

\* str(uuid.uuid4()): an id no entry has
FreshId(coll) == CHOOSE i \in Ids : i \notin DOMAIN coll /\ \A j \in Ids \ DOMAIN coll : i <= j

BoolStr(b) == IF b THEN "True" ELSE "False"

TagSet(tags) == IF tags = NoTags THEN {} ELSE {tags[i] : i \in 1..Len(tags)}

\* ------------------------------------------------------------ LearningService
\* LearningService: the default accuracy_rate, the step of a correction and
\* the floor of the error rate in hundredths, the decay factor in tenths,
\* and the lengths kept of errors_over_time and of events
InitialAccuracy == 95
ErrorStep == 5
ErrorFloor == 1
DecayTenths == 9
SeriesCap == 50
EventCap == 100

\* rates are kept in units of 1 / RateScale; MaxLearn decays of a rate with
\* two decimals are exact in these units
RECURSIVE Pow10(_)
Pow10(n) == IF n = 0 THEN 1 ELSE 10 * Pow10(n - 1)

RateScale == 100 * Pow10(MaxLearn)

Rate(hundredths) == hundredths * (RateScale \div 100)

Min2(a, b) == IF a <= b THEN a ELSE b

Max2(a, b) == IF a >= b THEN a ELSE b

\* round(x, 4)
Round4(x) ==
    LET unit == RateScale \div 10000
        q == x \div unit
        r == x % unit
    IN IF 2 * r > unit \/ (2 * r = unit /\ q % 2 = 1) THEN (q + 1) * unit ELSE q * unit

\* self.events = [] and the default self.stats
FreshLearning ==
    [events |-> <<>>,
     stats |-> [total_corrections |-> 0, accuracy_rate |-> Rate(InitialAccuracy),
                errors_over_time |-> <<>>],
     recorded |-> 0, session |-> 0]

\* the changes log_learning_event finds between old_data and new_data
LearningChanges(old_data, new_data) ==
    LET added_tags == new_data.tags \ old_data.tags
    IN (IF old_data.category # new_data.category
        THEN <<[field |-> "category", old |-> old_data.category, new |-> new_data.category,
                type |-> "correction"]>>
        ELSE <<>>)
       \o (IF added_tags # {}
           THEN <<[field |-> "tags", added |-> added_tags, type |-> "refinement"]>>
           ELSE <<>>)

\* correction_count
CorrectionCount(changes) ==
    Cardinality({i \in 1..Len(changes) : changes[i].type = "correction"})

\* an error rate that is neither capped nor floored
new_error_rate_Unclamped(current_error_rate, correction_count) ==
    IF correction_count > 0
    THEN current_error_rate + Rate(ErrorStep)
    ELSE (current_error_rate * DecayTenths) \div 10

new_error_rate(current_error_rate, correction_count) ==
    IF correction_count > 0
    THEN Min2(current_error_rate + Rate(ErrorStep), RateScale)
    ELSE Max2((current_error_rate * DecayTenths) \div 10, Rate(ErrorFloor))

\* the last n items of a list: lst[-n:]
LastN(lst, n) == IF Len(lst) <= n THEN lst ELSE SubSeq(lst, Len(lst) - n + 1, Len(lst))

\* the first n items of a list: lst[:n]
FirstN(lst, n) == IF Len(lst) <= n THEN lst ELSE SubSeq(lst, 1, n)

TrimSeries(series) == LastN(series, SeriesCap)

\* an event log that keeps its oldest events
TrimEvents_KeepsOldest(events) == LastN(events, EventCap)

TrimEvents(events) == FirstN(events, EventCap)

\* LearningService._update_stats
update_stats(stats, changes, timestamp) ==
    LET correction_count == CorrectionCount(changes)
        current_error_rate == RateScale - stats.accuracy_rate
        error == new_error_rate(current_error_rate, correction_count)
        accuracy_rate == RateScale - error
        point == [timestamp |-> timestamp, error_rate |-> Round4(error),
                  accuracy |-> Round4(accuracy_rate)]
    IN [total_corrections |-> stats.total_corrections + correction_count,
        accuracy_rate |-> accuracy_rate,
        errors_over_time |-> TrimSeries(Append(stats.errors_over_time, point))]

\* LearningService.log_learning_event; timestamp stands for datetime.now(),
\* the ordinal of the recording
log_learning_event(l, entry_id, old_data, new_data, source) ==
    LET changes == LearningChanges(old_data, new_data)
        timestamp == l.recorded + 1
        event == [id |-> Len(l.events) + 1, entry_id |-> entry_id, timestamp |-> timestamp,
                  source |-> source, changes |-> changes,
                  impact_score |-> Len(changes) * 5]
    IN IF changes = <<>> THEN l
       ELSE [events |-> TrimEvents(<<event>> \o l.events),
             stats |-> update_stats(l.stats, changes, timestamp),
             recorded |-> l.recorded + 1, session |-> l.session + 1]

Init ==
    /\ collection = <<>>
    /\ mergesMetadata \in BOOLEAN
    /\ clock = 0
    /\ resp = Resp("none", "returned", 0, 0, <<>>, 0)
    /\ queryLog = <<>>
    /\ learningHistory = <<>>
    /\ gatewayCalls = {}
    /\ lastToggle = [i \in Ids |-> "none"]
    /\ queriesProcessed = 0
    /\ inflight = [c \in Callers |-> IdleCall]
    /\ learning = FreshLearning

\* ------------------------------------------------------- learning history
\* a comparison that looks at the category only
PredictionDiffers_CategoryOnly(ai, category, tags) == ai.category # category

\* tags_changed or category_changed: the prediction against the final values
PredictionDiffers(ai, category, tags) ==
    TagSet(ai.tags) # TagSet(tags) \/ ai.category # category

\* learned_tags of one event: the human's tags the prediction did not have
LearnedTags(event) == event.human_correction.tags \ event.ai_prediction.tags

RECURSIVE TagCount(_, _)
TagCount(history, tag) ==
    IF history = <<>> THEN 0
    ELSE (IF tag \in LearnedTags(history[1]) THEN 1 ELSE 0) + TagCount(Tail(history), tag)

RECURSIVE SumCounts(_, _)
SumCounts(counts, tags) ==
    IF tags = {} THEN 0
    ELSE LET t == CHOOSE x \in tags : TRUE
         IN counts[t] + SumCounts(counts, tags \ {t})

\* GET /metrics/learning_stats, before the cut to the top tags
get_learning_stats(history) ==
    LET learned == UNION {LearnedTags(history[i]) : i \in 1..Len(history)}
        tag_counts == [t \in learned |-> TagCount(history, t)]
    IN [tag_counts |-> tag_counts, total_corrections |-> SumCounts(tag_counts, learned)]

\* LearningService.get_learning_log: the changes list derived for an event
\* read from learning_history.jsonl
FormattedChanges(event) ==
    LET ai_pred == event.ai_prediction
        human_corr == event.human_correction
    IN (IF ai_pred.category # human_corr.category
        THEN <<[field |-> "category", old |-> ai_pred.category, new |-> human_corr.category,
                type |-> "correction"]>>
        ELSE <<>>)
       \o (IF ai_pred.tags # human_corr.tags
           THEN <<[field |-> "tags", old |-> ai_pred.tags, added |-> human_corr.tags,
                   type |-> "refinement"]>>
           ELSE <<>>)

\* ---------------------------------------------------------------- POST /ingest
IngestKnowledge(text, ts, category, tags, summary, screenshot, ai, embedding, embOK, dbOK) ==
    /\ \E now \in clock..MaxClock :
        LET entry_id == FreshId(collection)
            anonymized_text == anonymize_text(text)
            generated == generate_embedding(anonymized_text, embedding, embOK)
            embedCall == [path |-> "ingest", api |-> "embed_document",
                          raw |-> text, sent |-> anonymized_text]
            metadata == [BlankMeta EXCEPT
                           !.url = "u",
                           !.timestamp = ts,
                           !.type = "manual_ingestion",
                           !.has_screenshot = BoolStr(screenshot # NoVal),
                           !.category = IF category # NoVal THEN category ELSE "Uncategorized",
                           !.tags = IF tags # NoTags /\ tags # <<>> THEN JoinTags(tags) ELSE "",
                           !.summary = IF summary # NoVal THEN summary ELSE "",
                           !.verification_status = "verified_human"]
            ai_tags == TagSet(ai.tags)
            human_tags == TagSet(tags)
            ai_category == ai.category
            changed == ai.given /\ PredictionDiffers(ai, category, tags)
            learning_event ==
                [timestamp |-> now,
                 summary |-> IF summary # NoVal THEN summary ELSE "No summary",
                 ai_prediction |-> [tags |-> ai_tags, category |-> ai_category],
                 human_correction |-> [tags |-> human_tags, category |-> category]]
        IN
        /\ clock' = now
        /\ gatewayCalls' = IF generated.called THEN gatewayCalls \cup {embedCall}
                           ELSE gatewayCalls
        /\ IF generated.raised
           THEN /\ resp' = WithNote(Resp("ingest", "returned", 500, 0, <<>>, 0), "embedding")
                /\ UNCHANGED <<collection, learningHistory>>
           ELSE IF ~dbOK
           THEN /\ resp' = WithNote(Resp("ingest", "returned", 500, 0, <<>>, 0), "store")
                /\ UNCHANGED <<collection, learningHistory>>
           ELSE /\ collection' = CollectionAdd(collection, entry_id, anonymized_text,
                                               generated.embedding, metadata)
                /\ changed => Len(learningHistory) < MaxEvents
                /\ learningHistory' = IF changed THEN Append(learningHistory, learning_event)
                                      ELSE learningHistory
                /\ resp' = Resp("ingest", "returned", 200, entry_id, <<>>, 0)
    /\ UNCHANGED <<mergesMetadata, queryLog, lastToggle, queriesProcessed, inflight, learning>>

\* ------------------------------------------------- DELETE /knowledge/{entry_id}
DeleteKnowledgeEntry(entry_id, dbOK) ==
    /\ \E now \in clock..MaxClock :
        LET r == delete_entry(collection, entry_id, now, mergesMetadata, dbOK)
        IN /\ clock' = now
           /\ collection' = r.coll
           /\ lastToggle' = IF r.ok THEN [lastToggle EXCEPT ![entry_id] = "deleted"]
                            ELSE lastToggle
           /\ resp' = WithNote(Resp("delete", "returned", IF r.ok THEN 200 ELSE 500, 0, <<>>, 0),
                            IF HasEntry(collection, entry_id) THEN "" ELSE "unknown_id")
    /\ UNCHANGED <<mergesMetadata, queryLog, learningHistory, gatewayCalls, queriesProcessed, inflight, learning>>

\* ------------------------------------------ POST /knowledge/{entry_id}/restore
RestoreKnowledgeEntry(entry_id, dbOK) ==
    LET r == restore_entry(collection, entry_id, mergesMetadata, dbOK)
    IN /\ collection' = r.coll
       /\ lastToggle' = IF r.ok THEN [lastToggle EXCEPT ![entry_id] = "restored"]
                        ELSE lastToggle
       /\ resp' = WithNote(Resp("restore", "returned", IF r.ok THEN 200 ELSE 500, 0, <<>>, 0),
                            IF HasEntry(collection, entry_id) THEN "" ELSE "unknown_id")
       /\ UNCHANGED <<mergesMetadata, clock, queryLog, learningHistory, gatewayCalls,
                      queriesProcessed, inflight, learning>>

\* -------------------------------------------------- PATCH /knowledge/{entry_id}
UpdateKnowledgeEntry(entry_id, category, tags, summary, screenshot, dbOK) ==
    LET updates == [BlankMeta EXCEPT
                      !.category = category,
                      !.tags = IF tags # NoTags THEN JoinTags(tags) ELSE NoVal,
                      !.summary = summary,
                      !.screenshot = screenshot,
                      !.has_screenshot = IF screenshot # NoVal THEN "True" ELSE NoVal,
                      !.verification_status = "verified_human"]
        r == update_entry(collection, entry_id, updates, NoText, NoTime, mergesMetadata, dbOK)
    IN /\ collection' = r.coll
       /\ resp' = WithNote(Resp("update", "returned", IF r.ok THEN 200 ELSE 404, 0, <<>>, 0),
                            IF HasEntry(collection, entry_id) THEN "" ELSE "unknown_id")
       /\ UNCHANGED <<mergesMetadata, clock, queryLog, learningHistory, gatewayCalls,
                      lastToggle, queriesProcessed, inflight, learning>>

\* a direct call of VectorDatabase.update_entry with content
UpdateEntryCall(entry_id, content, embedding, own_embedding, dbOK) ==
    LET r == update_entry_indexed(collection, entry_id, BlankMeta, content, embedding,
                                  own_embedding, mergesMetadata, dbOK)
    IN /\ collection' = r.coll
       /\ resp' = WithNote(Resp("update_entry", IF r.ok THEN "returned" ELSE "failed",
                                0, entry_id, <<>>, 0),
                           IF content = NoText THEN "no_content"
                           ELSE IF embedding = NoTime THEN "content_only"
                           ELSE "content_and_embedding")
       /\ UNCHANGED <<mergesMetadata, clock, queryLog, learningHistory, gatewayCalls,
                      lastToggle, queriesProcessed, inflight, learning>>

\* ------------------- update_entry / delete_entry, one index call at a time
\* the updates dict the PATCH handler builds
UpdatesOf(category, tags) ==
    [BlankMeta EXCEPT !.category = category,
                      !.tags = IF tags # NoTags THEN JoinTags(tags) ELSE NoVal,
                      !.verification_status = "verified_human"]

\* update_entry up to its collection.get: the caller holds the metadata it
\* read, with its updates applied; an unknown id returns False at once
UpdateEntryGet(c, entry_id, updates) ==
    /\ inflight[c].phase = "idle"
    /\ IF HasEntry(collection, entry_id)
       THEN /\ inflight' = [inflight EXCEPT ![c] =
                   [op |-> "update", phase |-> "read", entry_id |-> entry_id,
                    current_metadata |-> DictUpdate(collection[entry_id].metadata, updates),
                    ok |-> FALSE]]
            /\ UNCHANGED resp
       ELSE /\ inflight' = [inflight EXCEPT ![c] =
                   [IdleCall EXCEPT !.op = "update", !.phase = "done", !.entry_id = entry_id]]
            /\ resp' = WithNote(Resp("update", "returned", 404, 0, <<>>, 0), "unknown_id")
    /\ UNCHANGED <<collection, mergesMetadata, clock, queryLog, learningHistory,
                   gatewayCalls, lastToggle, queriesProcessed, learning>>

\* delete_entry up to its collection.get
DeleteEntryGet(c, entry_id) ==
    /\ inflight[c].phase = "idle"
    /\ \E now \in clock..MaxClock :
        /\ clock' = now
        /\ IF HasEntry(collection, entry_id)
           THEN /\ inflight' = [inflight EXCEPT ![c] =
                       [op |-> "delete", phase |-> "read", entry_id |-> entry_id,
                        current_metadata |->
                            [collection[entry_id].metadata EXCEPT !.is_deleted = "True",
                                                                  !.deleted_at = now],
                        ok |-> FALSE]]
                /\ UNCHANGED resp
           ELSE /\ inflight' = [inflight EXCEPT ![c] =
                       [IdleCall EXCEPT !.op = "delete", !.phase = "done", !.entry_id = entry_id]]
                /\ resp' = WithNote(Resp("delete", "returned", 500, 0, <<>>, 0), "unknown_id")
    /\ UNCHANGED <<collection, mergesMetadata, queryLog, learningHistory,
                   gatewayCalls, lastToggle, queriesProcessed, learning>>

\* a write that never reaches the index
EntryWrite_Dropped(coll, entry_id, current_metadata, merges) == coll

\* collection.update(ids=[entry_id], metadatas=[current_metadata])
EntryWrite(coll, entry_id, current_metadata, merges) ==
    CollectionUpdateMetadata(coll, entry_id, current_metadata, merges)

\* the collection.update of update_entry / delete_entry and the handler's
\* answer
EntryUpdate(c) ==
    /\ inflight[c].phase = "read"
    /\ collection' = EntryWrite(collection, inflight[c].entry_id,
                                inflight[c].current_metadata, mergesMetadata)
    /\ inflight' = [inflight EXCEPT ![c].phase = "done", ![c].ok = TRUE]
    /\ lastToggle' = IF inflight[c].op = "delete"
                     THEN [lastToggle EXCEPT ![inflight[c].entry_id] = "deleted"]
                     ELSE lastToggle
    /\ resp' = Resp(inflight[c].op, "returned", 200, 0, <<>>, 0)
    /\ UNCHANGED <<mergesMetadata, clock, queryLog, learningHistory, gatewayCalls,
                   queriesProcessed, learning>>

\* ------------------------------------------------------ VectorDatabase.search
Search(q, top_k, threshold, verified_only, include_deleted, dbOK) ==
    /\ IF dbOK
       THEN \E ms \in search(collection, q, top_k, threshold, verified_only, include_deleted) :
               resp' = Resp(IF include_deleted THEN "search_all" ELSE "search",
                            "returned", 0, 0, ms, Len(ms))
       ELSE resp' = Resp(IF include_deleted THEN "search_all" ELSE "search",
                         "raised", 0, 0, <<>>, 0)
    /\ UNCHANGED <<collection, mergesMetadata, clock, queryLog, learningHistory,
                   gatewayCalls, lastToggle, queriesProcessed, inflight, learning>>

\* ------------------------------------------------- GET /knowledge/recent
\* the limit of the collection.get call
FetchCap == 100

\* where_filter of get_recent_entries
RecentWhere(meta, deleted_only) ==
    IF deleted_only THEN meta.is_deleted = "True" ELSE meta.is_deleted # "True"

\* the ways to leave k elements of S out
RECURSIVE DropAny(_, _)
DropAny(S, k) ==
    IF k = 0 THEN {S} ELSE UNION {DropAny(S \ {x}, k - 1) : x \in S}

\* collection.get(limit=cap, where=...): at most cap of the entries that pass
\* the filter
FetchSets(cands, cap) ==
    IF Cardinality(cands) <= cap THEN {cands} ELSE DropAny(cands, Cardinality(cands) - cap)

\* entries.sort(key=timestamp, reverse=True) over ids fetched in any order:
\* newest first, equal timestamps in any order (split at a median timestamp)
RECURSIVE NewestFirst(_, _)
NewestFirst(coll, S) ==
    IF S = {} THEN {<<>>}
    ELSE LET ts(x) == coll[x].metadata.timestamp
             pivot == CHOOSE t \in {ts(x) : x \in S} :
                         /\ 2 * Cardinality({x \in S : ts(x) > t}) <= Cardinality(S)
                         /\ 2 * Cardinality({x \in S : ts(x) < t}) <= Cardinality(S)
             newer == NewestFirst(coll, {x \in S : ts(x) > pivot})
             older == NewestFirst(coll, {x \in S : ts(x) < pivot})
         IN {a \o e \o b : a \in newer, e \in Arrangements({x \in S : ts(x) = pivot}),
                           b \in older}

\* the entry dict of one fetched id
RecentEntry(coll, id) ==
    [id |-> id, document |-> coll[id].document, metadata |-> coll[id].metadata]

\* VectorDatabase.get_recent_entries: every list the call can return; the
\* fetched ids are the candidates less the ones the limit of the get cut off
get_recent_entries(coll, limit, deleted_only) ==
    LET cands == {id \in DOMAIN coll : RecentWhere(coll[id].metadata, deleted_only)}
        kept(s, F) == SelectSeq(s, LAMBDA id : id \in F)
        orders == {kept(s, F) : s \in NewestFirst(coll, cands),
                                F \in FetchSets(cands, FetchCap)}
    IN {[i \in 1..MinOf(limit, Len(s)) |-> RecentEntry(coll, s[i])] : s \in orders}

\* the route: a store failure is caught in get_recent_entries and answered
\* with the empty list
GetRecentKnowledge(limit, deleted_only, dbOK) ==
    /\ IF dbOK
       THEN \E entries \in get_recent_entries(collection, limit, deleted_only) :
               resp' = Resp(IF deleted_only THEN "recent_deleted" ELSE "recent",
                            "returned", 200, 0, entries, Len(entries))
       ELSE resp' = WithNote(Resp(IF deleted_only THEN "recent_deleted" ELSE "recent",
                                  "returned", 200, 0, <<>>, 0), "store")
    /\ UNCHANGED <<collection, mergesMetadata, clock, queryLog, learningHistory,
                   gatewayCalls, lastToggle, queriesProcessed, inflight, learning>>

\* ------------------------------------------------- POST /chat-logs/process
\* ChatLogProcessor._create_embeddings over the extracted candidates: the
\* entries to store, ids taken from free
RECURSIVE CreateEmbeddings(_, _, _)
CreateEmbeddings(cands, free, now) ==
    IF cands = <<>> THEN <<>>
    ELSE LET c == cands[1]
         IN IF c.content = <<>> \/ ~c.embOK
            THEN CreateEmbeddings(Tail(cands), free, now)
            ELSE LET id == CHOOSE i \in free : \A j \in free : i <= j
                 IN <<[id |-> id, document |-> c.content, embedding |-> c.embedding,
                       metadata |-> [BlankMeta EXCEPT !.entry_type = c.entry_type,
                                                      !.timestamp = now]]>>
                    \o CreateEmbeddings(Tail(cands), free \ {id}, now)

\* the embedding calls _create_embeddings makes
CandidateCalls(cands) ==
    {[path |-> "chat_candidate", api |-> "embed_document",
      raw |-> cands[i].content, sent |-> cands[i].content] :
        i \in {j \in 1..Len(cands) : cands[j].content # <<>>}}

\* collection.add over the prepared entries
RECURSIVE StoreKnowledge(_, _)
StoreKnowledge(coll, entries) ==
    IF entries = <<>> THEN coll
    ELSE StoreKnowledge(CollectionAdd(coll, entries[1].id, entries[1].document,
                                      entries[1].embedding, entries[1].metadata),
                        Tail(entries))

\* a batch that is let through whatever its size
BatchSizeError_Unchecked(n) == 0

\* the status a batch of n messages is refused with, 0 when it is accepted:
\* the request schema's max_length, then the handler's own size check
BatchSizeError(n) ==
    IF n > SchemaMaxLength THEN 422
    ELSE IF n > BatchCap THEN 400
    ELSE 0

\* a batch of n messages whose content is the given text; cands is what the
\* generation model extracts from it (empty when extraction fails)
ProcessChatLogs(n, content, extractOK, cands, dbOK) ==
    /\ \E now \in clock..MaxClock :
        LET anonymized == anonymize_text(content)
            extractCall == [path |-> "chat", api |-> "generate",
                            raw |-> content, sent |-> anonymized]
            knowledge_dicts == IF extractOK THEN cands ELSE <<>>
            embeddings_data == CreateEmbeddings(knowledge_dicts, Ids \ DOMAIN collection, now)
        IN
        /\ clock' = now
        /\ IF BatchSizeError(n) # 0
           THEN /\ resp' = Resp("process_chat_logs", "returned", BatchSizeError(n), 0, <<>>, 0)
                /\ UNCHANGED <<collection, gatewayCalls>>
           ELSE IF n = 0
           THEN /\ resp' = Resp("process_chat_logs", "returned", 200, 0, <<>>, 0)
                /\ UNCHANGED <<collection, gatewayCalls>>
           ELSE IF knowledge_dicts = <<>>
           THEN /\ gatewayCalls' = gatewayCalls \cup {extractCall}
                /\ resp' = Resp("process_chat_logs", "returned", 200, 0, <<>>, 0)
                /\ UNCHANGED collection
           ELSE IF embeddings_data = <<>> \/ ~dbOK
           THEN /\ gatewayCalls' = gatewayCalls \cup {extractCall}
                                       \cup CandidateCalls(knowledge_dicts)
                /\ resp' = Resp("process_chat_logs", "returned", 200, 0, <<>>, 0)
                /\ UNCHANGED collection
           ELSE /\ gatewayCalls' = gatewayCalls \cup {extractCall}
                                       \cup CandidateCalls(knowledge_dicts)
                /\ collection' = StoreKnowledge(collection, embeddings_data)
                /\ resp' = Resp("process_chat_logs", "returned", 200, 0, <<>>,
                                Len(embeddings_data))
    /\ UNCHANGED <<mergesMetadata, queryLog, learningHistory, lastToggle, queriesProcessed, inflight, learning>>

\* ------------------------------------------ the retry loop of the client
\* 2 ** attempt
RECURSIVE Pow2(_)
Pow2(n) == IF n = 0 THEN 1 ELSE 2 * Pow2(n - 1)

\* a loop that falls through to the value after the loop when the last
\* attempt fails
RECURSIVE RetryLoop_ReturnsDefault(_, _, _, _)
RetryLoop_ReturnsDefault(fails, attempt, max_retries, sleeps) ==
    IF attempt >= max_retries
    THEN [outcome |-> "default", attempts |-> attempt, value |-> 0, sleeps |-> sleeps]
    ELSE IF ~fails[attempt + 1]
    THEN [outcome |-> "returned", attempts |-> attempt + 1, value |-> attempt + 1,
          sleeps |-> sleeps]
    ELSE RetryLoop_ReturnsDefault(fails, attempt + 1, max_retries,
                                  IF attempt < max_retries - 1
                                  THEN Append(sleeps, Pow2(attempt)) ELSE sleeps)

\* for attempt in range(max_retries): try the API call and return its result
\* (value is the attempt that produced it); on an exception sleep 2 ** attempt
\* and go on, or re-raise when this was the last attempt; after the loop
\* return the default.  fails[k] tells whether the k-th attempt raises.
RECURSIVE RetryLoop(_, _, _, _)
RetryLoop(fails, attempt, max_retries, sleeps) ==
    IF attempt >= max_retries
    THEN [outcome |-> "default", attempts |-> attempt, value |-> 0, sleeps |-> sleeps]
    ELSE IF ~fails[attempt + 1]
    THEN [outcome |-> "returned", attempts |-> attempt + 1, value |-> attempt + 1,
          sleeps |-> sleeps]
    ELSE IF attempt < max_retries - 1
    THEN RetryLoop(fails, attempt + 1, max_retries, Append(sleeps, Pow2(attempt)))
    ELSE [outcome |-> "raised", attempts |-> attempt + 1, value |-> 0, sleeps |-> sleeps]

\* generate_embedding, generate_query_embedding, extract_knowledge,
\* analyze_content
GatewayMethods == {"embed_document", "embed_query", "extract", "analyze"}

\* a call of one of the four methods: on an empty input extract_knowledge
\* returns [] and the others raise ValueError, before any attempt
GatewayCall(method, empty, max_retries, fails) ==
    LET out == IF ~empty THEN RetryLoop(fails, 0, max_retries, <<>>)
               ELSE [outcome |-> IF method = "extract" THEN "default" ELSE "raised",
                     attempts |-> 0, value |-> 0, sleeps |-> <<>>]
    IN /\ resp' = WithNote(Resp(method, out.outcome, 0, 0,
                                <<[max_retries |-> max_retries, fails |-> fails,
                                   empty |-> empty, attempts |-> out.attempts,
                                   value |-> out.value, sleeps |-> out.sleeps]>>, 0),
                           IF empty /\ method # "extract" THEN "ValueError" ELSE "")
       /\ UNCHANGED <<collection, mergesMetadata, clock, queryLog, learningHistory,
                      gatewayCalls, lastToggle, queriesProcessed, inflight, learning>>

\* ------------------------------------------ VectorDatabase.find_similar_verified
\* the defaults of n and threshold
FewShotN == 3
FewShotThreshold == 10

\* collection.query(n_results=n * 2, where={"verification_status": "verified_human"})
FewShotQuery(coll, q, n) == CollectionQuery(coll, q, n * 2, TRUE, TRUE)

\* every list of matches the call can return; all matches are verified_human,
\* so the sort of search orders them by similarity_score alone
find_similar_verified(coll, q, n, threshold) ==
    {FirstN(SortMatches(AboveThreshold(coll, q, ids, threshold)), n) :
        ids \in FewShotQuery(coll, q, n)}

\* step 2 of analyze_content: the entries that become the context examples
FindSimilarVerified(q, n) ==
    /\ \E ms \in find_similar_verified(collection, q, n, FewShotThreshold) :
          resp' = Resp("find_similar_verified", "returned", 0, 0, ms, Len(ms))
    /\ UNCHANGED <<collection, mergesMetadata, clock, queryLog, learningHistory,
                   gatewayCalls, lastToggle, queriesProcessed, inflight, learning>>

\* ---------------------------------------------------------------- POST /analyze
AnalyzeContent(text, embOK, analyzeOK) ==
    LET embedCall == [path |-> "analyze", api |-> "embed_document",
                      raw |-> text, sent |-> text]
        generateCall == [path |-> "analyze", api |-> "generate",
                         raw |-> text, sent |-> text]
    IN /\ IF text = <<>>
          THEN /\ resp' = Resp("analyze", "returned", 500, 0, <<>>, 0)
               /\ UNCHANGED gatewayCalls
          ELSE IF ~embOK
          THEN /\ gatewayCalls' = gatewayCalls \cup {embedCall}
               /\ resp' = Resp("analyze", "returned", 500, 0, <<>>, 0)
          ELSE /\ gatewayCalls' = gatewayCalls \cup {embedCall, generateCall}
               /\ resp' = Resp("analyze", "returned", IF analyzeOK THEN 200 ELSE 500,
                               0, <<>>, 0)
       /\ UNCHANGED <<collection, mergesMetadata, clock, queryLog, learningHistory,
                      lastToggle, queriesProcessed, inflight, learning>>

\* ------------------------------------------- GeminiClient.analyze_content
\* max_retries
MaxRetries == 3

\* a JSON value for "tags": a list, a string (items are its characters), null,
\* or no such key
TagsValue(type, items) == [type |-> type, items |-> items]

\* category.split("/")[0].strip().lower()
CategoryHead(category) ==
    CASE category = "Policy" -> "policy"
      [] category = "HR / Leave" -> "hr"
      [] category = "Captured" -> "captured"
      [] category = "General" -> "general"
      [] OTHER -> category

\* what one attempt raises
AnalysisRaised == [raised |-> TRUE, category |-> NoVal,
                   tags |-> TagsValue("list", <<>>), summary |-> NoVal]

AnalysisResult(category, tags, summary) ==
    [raised |-> FALSE, category |-> category, tags |-> tags, summary |-> summary]

\* the body of one attempt on one model response: the results it can return,
\* or AnalysisRaised; list(set(...)) comes in any order
AnalyzeAttempt(r) ==
    IF r.kind = "error" THEN {AnalysisRaised}
    ELSE IF r.kind = "text"
    THEN {AnalysisResult("Uncategorized", TagsValue("list", <<"general", "captured">>),
                         "Analysis failed to produce structured output")}
    ELSE IF r.kind = "braces" THEN {AnalysisRaised}
    ELSE LET tags == IF r.tags.type = "absent" THEN TagsValue("list", <<>>) ELSE r.tags
             category == IF r.category # NoVal THEN r.category ELSE "Uncategorized"
             summary == "s"
         IN IF tags.type # "null" /\ Len(tags.items) >= 2
            THEN {AnalysisResult(category, tags, summary)}
            ELSE IF tags.type # "list" THEN {AnalysisRaised}
            ELSE LET fallback_tags ==
                         {CategoryHead(IF r.category # NoVal THEN r.category ELSE "General"),
                          "captured"}
                     merged == TagSet(tags.items) \cup fallback_tags
                 IN {AnalysisResult(category,
                                    TagsValue("list", SubSeq(order, 1, MinOf(5, Len(order)))),
                                    summary) : order \in Arrangements(merged)}

\* the retry loop over the model's successive responses
RECURSIVE AnalyzeAttempts(_)
AnalyzeAttempts(responses) ==
    IF responses = <<>>
    THEN {AnalysisResult("Uncategorized", TagsValue("list", <<>>), "Analysis failed")}
    ELSE LET outs == AnalyzeAttempt(responses[1])
         IN (outs \ {AnalysisRaised})
            \cup (IF AnalysisRaised \notin outs THEN {}
                  ELSE IF Len(responses) = 1 THEN {AnalysisRaised}
                  ELSE AnalyzeAttempts(Tail(responses)))

\* GeminiClient.analyze_content: every outcome of the call
analyze_content(text, responses) ==
    IF text = <<>> THEN {AnalysisRaised} ELSE AnalyzeAttempts(responses)

\* a direct call of the client method; responses are what the generation
\* model answers on the successive attempts
AnalyzeContentCall(text, responses) ==
    /\ Len(responses) = MaxRetries
    /\ \E out \in analyze_content(text, responses) :
          resp' = IF text = <<>>
                  THEN WithNote(Resp("analyze_content", "raised", 0, 0, <<>>, 0), "ValueError")
                  ELSE IF out.raised
                  THEN Resp("analyze_content", "raised", 0, 0, <<>>, 0)
                  ELSE Resp("analyze_content", "returned", 0, 0, <<out>>, 0)
    /\ gatewayCalls' = IF text = <<>> THEN gatewayCalls
                       ELSE gatewayCalls \cup {[path |-> "analyze_content", api |-> "generate",
                                                raw |-> text, sent |-> text]}
    /\ UNCHANGED <<collection, mergesMetadata, clock, queryLog, learningHistory,
                   lastToggle, queriesProcessed, inflight, learning>>

\* ------------------------------------------ QueryService.query_knowledge_base
\* not query or not query.strip()
IsBlank(query) == query \in {"", " "}

\* the keyword parameters query_knowledge_base declares
QueryKnowledgeBaseParams == {"query"}

\* the fields of the QueryRequest schema
QueryRequestFields == {"query"}

\* what the route reads from the request and passes on
RouteQueryKwargs == {"query", "verified_only"}

\* QueryService._format_matches: a match whose formatting raises is skipped;
\* KnowledgeMatch requires 0 <= similarity_score <= 1
RECURSIVE FormatMatches(_, _)
FormatMatches(matches, fmtFail) ==
    IF matches = <<>> THEN <<>>
    ELSE LET m == matches[1]
             rest == FormatMatches(Tail(matches), fmtFail)
         IN IF m.id \in fmtFail \/ m.similarity_score < 0 \/ m.similarity_score > SimScale
            THEN rest
            ELSE <<[knowledge_id |-> m.id, content |-> m.document,
                    similarity_score |-> m.similarity_score,
                    source |-> [timestamp |-> m.metadata.timestamp]]>> \o rest

\* QueryService._log_query: the line appended to query_log.jsonl
LogEntry(query_id, query_text, result_count, now) ==
    [query_id |-> query_id, query_text |-> query_text, result_count |-> result_count,
     timestamp |-> now, has_results |-> result_count > 0]

QueryKnowledgeBase(op, query, qvec, embOK, dbOK, fmtFail, logOK) ==
    /\ queriesProcessed < MaxQueries
    /\ IF IsBlank(query)
       THEN \* raise ValueError("Query cannot be empty")
            /\ resp' = WithNote(Resp(op, "raised", IF op = "query_route" THEN 400 ELSE 0,
                                     0, <<>>, 0), "ValueError")
            /\ UNCHANGED <<clock, queryLog, gatewayCalls, queriesProcessed>>
       ELSE \E now \in clock..MaxClock :
            LET embedCall == [path |-> "query", api |-> "embed_query",
                              raw |-> <<query>>, sent |-> <<query>>]
                status == IF op = "query_route" THEN 200 ELSE 0
            IN
            /\ clock' = now
            /\ queriesProcessed' = queriesProcessed + 1
            /\ gatewayCalls' = gatewayCalls \cup {embedCall}
            /\ IF ~embOK
               THEN /\ resp' = WithNote(Resp(op, "returned", status, 0, <<>>, 0), "embedding")
                    /\ UNCHANGED queryLog
               ELSE IF ~dbOK
               THEN /\ resp' = WithNote(Resp(op, "returned", status, 0, <<>>, 0), "search")
                    /\ UNCHANGED queryLog
               ELSE \E ms \in search(collection, qvec, DefaultTopK, DefaultThreshold,
                                     FALSE, FALSE) :
                    LET knowledge_matches == FormatMatches(ms, fmtFail)
                        note == IF ~logOK THEN "log"
                                ELSE IF Len(knowledge_matches) < Len(ms) THEN "format"
                                ELSE ""
                    IN /\ queryLog' =
                            IF logOK
                            THEN Append(queryLog, LogEntry(queriesProcessed + 1, query,
                                                           Len(knowledge_matches), now))
                            ELSE queryLog
                       /\ resp' = WithNote(Resp(op, "returned", status, 0, knowledge_matches,
                                                Len(knowledge_matches)), note)
    /\ UNCHANGED <<collection, mergesMetadata, learningHistory, lastToggle, inflight, learning>>

\* ------------------------------------------- QueryService.get_knowledge_gaps
\* the dashboard's limit of gap items, and its trailing window in days
GapLimit == 5
GapWindowDays == 7

\* the log entries without results inside the trailing window
GapEntries(log, window_days, now) ==
    {i \in 1..Len(log) : ~log[i].has_results /\ now - log[i].timestamp <= window_days}

RECURSIVE MaxOf(_)
MaxOf(S) ==
    LET x == CHOOSE y \in S : TRUE
    IN IF S = {x} THEN x ELSE LET m == MaxOf(S \ {x}) IN IF x >= m THEN x ELSE m

\* one item per distinct query text among those entries
GapItems(log, window_days, now) ==
    LET rows == GapEntries(log, window_days, now)
    IN {[query |-> q,
         count |-> Cardinality({i \in rows : log[i].query_text = q}),
         last_asked |-> MaxOf({log[i].timestamp : i \in {j \in rows : log[j].query_text = q}})]
        : q \in {log[i].query_text : i \in rows}}

\* the limit most frequent items; items of equal count are cut in any way
get_knowledge_gaps(log, limit, window_days, now) ==
    LET items == GapItems(log, window_days, now)
    IN {S \in SUBSET items :
          /\ Cardinality(S) = MinOf(limit, Cardinality(items))
          /\ \A a \in S : \A b \in items \ S : a.count >= b.count}

\* a direct call of the service
QueryService(query, qvec, embOK, dbOK, fmtFail, logOK) ==
    QueryKnowledgeBase("query", query, qvec, embOK, dbOK, fmtFail, logOK)

\* ------------------------------------------------------ POST /knowledge/query
\* verified_only is the flag of the request body
QueryKnowledgeRoute(query, verified_only, qvec, embOK, dbOK, fmtFail, logOK) ==
    IF query = ""
    THEN \* QueryRequest.query has min_length=1
         /\ resp' = WithNote(Resp("query_route", "returned", 422, 0, <<>>, 0), "validation")
         /\ UNCHANGED <<collection, mergesMetadata, clock, queryLog, learningHistory,
                        gatewayCalls, lastToggle, queriesProcessed, inflight, learning>>
    ELSE IF ~(RouteQueryKwargs \subseteq QueryRequestFields)
            \/ ~(RouteQueryKwargs \subseteq QueryKnowledgeBaseParams)
    THEN \* AttributeError / TypeError, caught by except Exception
         /\ resp' = WithNote(Resp("query_route", "returned", 500, 0, <<>>, 0), "call")
         /\ UNCHANGED <<collection, mergesMetadata, clock, queryLog, learningHistory,
                        gatewayCalls, lastToggle, queriesProcessed, inflight, learning>>
    ELSE QueryKnowledgeBase("query_route", query, qvec, embOK, dbOK, fmtFail, logOK)

\* ------------------------------------- VectorDatabase.add_knowledge, direct
\* the call verify_ranking.py makes: one entry with a caller-chosen status
AddKnowledge(document, embedding, verification_status, dbOK) ==
    /\ IF dbOK
       THEN /\ collection' = CollectionAdd(collection, FreshId(collection), document, embedding,
                                 [BlankMeta EXCEPT !.verification_status = verification_status,
                                                   !.type = "chat_log",
                                                   !.timestamp = clock])
            /\ resp' = Resp("add_knowledge", "returned", 0, FreshId(collection), <<>>, 0)
       ELSE /\ resp' = Resp("add_knowledge", "raised", 0, 0, <<>>, 0)
            /\ UNCHANGED collection
    /\ UNCHANGED <<mergesMetadata, clock, queryLog, learningHistory, gatewayCalls,
                   lastToggle, queriesProcessed, inflight, learning>>

\* ------------------------------------------------------------ specifications
\* the ids a request can name: every id in the store and one that is not
RequestIds == DOMAIN collection \cup {FreshId(collection)}

Candidates(contents) ==
    [content : contents, entry_type : {"qa"}, embOK : BOOLEAN, embedding : {0}]

CandidateSeqs(contents) ==
    UNION {[1..n -> Candidates(contents)] : n \in 0..MaxCands}

\* the store has room for n more entries within the bound cap
HasRoom(n, cap) == Cardinality(DOMAIN collection) + n <= cap

\* ---- Spec: the store lifecycle (ingest, extraction, update, delete, restore,
\* default search)
Ingest ==
    /\ HasRoom(1, MaxEntries)
    /\ \E embOK \in BOOLEAN, dbOK \in BOOLEAN :
        IngestKnowledge(<<"hello">>, clock, "Policy", <<"a", "b">>, NoVal, NoVal, NoPrediction,
                        0, embOK, dbOK)

Extract ==
    \E extractOK \in BOOLEAN, cands \in CandidateSeqs({<<>>, <<"answer">>}), dbOK \in BOOLEAN :
        /\ HasRoom(Len(cands), MaxEntries)
        /\ ProcessChatLogs(1, <<"hello">>, extractOK, cands, dbOK)

Update ==
    \E id \in RequestIds, dbOK \in BOOLEAN :
        UpdateKnowledgeEntry(id, NoVal, <<"x">>, NoVal, NoVal, dbOK)

Delete == \E id \in RequestIds, dbOK \in BOOLEAN : DeleteKnowledgeEntry(id, dbOK)

Restore == \E id \in RequestIds, dbOK \in BOOLEAN : RestoreKnowledgeEntry(id, dbOK)

SearchDefault ==
    \E verified_only \in BOOLEAN, dbOK \in BOOLEAN :
        Search(0, DefaultTopK, DefaultThreshold, verified_only, FALSE, dbOK)

Next == Ingest \/ Extract \/ Update \/ Delete \/ Restore \/ SearchDefault

Spec == Init /\ [][Next]_vars

\* ---- SpecSearch: entries of either status at any distance, searched with
\* every combination of the arguments
AddEntry ==
    /\ HasRoom(1, MaxIndexed)
    /\ \E embedding \in Vectors, status \in {"unverified", "verified_human"} :
        AddKnowledge(<<"policy">>, embedding, status, TRUE)

SearchAny ==
    \E q \in Vectors, top_k \in 1..DefaultTopK, threshold \in {DefaultThreshold, 80},
       verified_only \in BOOLEAN :
        Search(q, top_k, threshold, verified_only, FALSE, TRUE)

NextSearch == AddEntry \/ SearchAny

SpecSearch == Init /\ [][NextSearch]_vars

\* ---- SpecSlots: a search request arrives and is then run, over entries
\* that are verified or not, deleted or not, near to the query or far
SearchRequests ==
    [q : Vectors, top_k : 1..DefaultTopK, threshold : {DefaultThreshold, 80},
     verified_only : BOOLEAN]

SearchArrives ==
    /\ \E request \in SearchRequests :
          resp' = Resp("search_request", "pending", 0, 0, <<request>>, 0)
    /\ UNCHANGED <<collection, mergesMetadata, clock, queryLog, learningHistory,
                   gatewayCalls, lastToggle, queriesProcessed, inflight, learning>>

SearchRuns ==
    /\ resp.op = "search_request"
    /\ LET request == resp.results[1]
       IN Search(request.q, request.top_k, request.threshold, request.verified_only,
                 FALSE, TRUE)

DeleteIndexed == \E id \in DOMAIN collection : DeleteKnowledgeEntry(id, TRUE)

NextSlots == AddEntry \/ DeleteIndexed \/ SearchArrives \/ SearchRuns

SpecSlots == Init /\ [][NextSlots]_vars

\* ---- SpecUpdate: partial updates with every combination of supplied fields,
\* on ingested (verified) and extracted (not verified) entries
UpdCategories == {NoVal, "Billing"}
UpdTags == {NoTags, <<"x">>}
UpdSummaries == {NoVal, "short"}
UpdScreenshots == {NoVal, "img"}

IngestOne ==
    /\ HasRoom(1, MaxEdited)
    /\ IngestKnowledge(<<"hello">>, clock, "Policy", <<"a", "b">>, NoVal, NoVal, NoPrediction,
                       0, TRUE, TRUE)

ExtractOne ==
    /\ HasRoom(1, MaxEdited)
    /\ ProcessChatLogs(1, <<"hello">>, TRUE,
                       <<[content |-> <<"answer">>, entry_type |-> "qa", embOK |-> TRUE,
                          embedding |-> 0]>>, TRUE)

UpdateAny ==
    \E id \in RequestIds, category \in UpdCategories, tags \in UpdTags,
       summary \in UpdSummaries, screenshot \in UpdScreenshots :
        UpdateKnowledgeEntry(id, category, tags, summary, screenshot, TRUE)

NextUpdate == IngestOne \/ ExtractOne \/ UpdateAny

SpecUpdate == Init /\ [][NextUpdate]_vars

\* ---- SpecFlow: the three paths that take text from a caller (manual ingest,
\* analyze-only, chat extraction), on text with and without personal data
Texts == {<<>>, <<"hello">>, <<"mail", "a@b.com">>}

IngestText ==
    /\ HasRoom(1, MaxEntries)
    /\ \E text \in Texts, embOK \in BOOLEAN :
        IngestKnowledge(text, clock, NoVal, NoTags, NoVal, NoVal, NoPrediction, 0, embOK, TRUE)

Analyze ==
    \E text \in Texts, embOK \in BOOLEAN, analyzeOK \in BOOLEAN :
        AnalyzeContent(text, embOK, analyzeOK)

ExtractText ==
    \E content \in Texts, n \in {0, 1, BatchCap + 1}, extractOK \in BOOLEAN,
       cands \in CandidateSeqs({<<"answer">>}) :
        /\ HasRoom(Len(cands), MaxEntries)
        /\ ProcessChatLogs(n, content, extractOK, cands, TRUE)

NextFlow == IngestText \/ Analyze \/ ExtractText

SpecFlow == Init /\ [][NextFlow]_vars

\* ---- SpecContent: entries are ingested with the gateway's embedding of
\* their text, edited through the PATCH handler, and updated by direct calls
\* of update_entry with and without content and embedding
ContentTexts == {<<"hello">>, <<"policy">>}

IngestContent ==
    /\ HasRoom(1, MaxEntries)
    /\ \E text \in ContentTexts :
        IngestKnowledge(text, clock, NoVal, NoTags, NoVal, NoVal, NoPrediction,
                        EmbeddingOf(anonymize_text(text)), TRUE, TRUE)

PatchContent ==
    \E id \in DOMAIN collection, category \in UpdCategories :
        UpdateKnowledgeEntry(id, category, NoTags, NoVal, NoVal, TRUE)

UpdateContent ==
    \E id \in DOMAIN collection, content \in ContentTexts \cup {NoText},
       supplied \in BOOLEAN, own_embedding \in Vectors, dbOK \in BOOLEAN :
        UpdateEntryCall(id, content,
                        IF supplied /\ content # NoText THEN EmbeddingOf(content) ELSE NoTime,
                        own_embedding, dbOK)

NextContent == IngestContent \/ PatchContent \/ UpdateContent

SpecContent == Init /\ [][NextContent]_vars

\* ---- SpecBatch: chat-log batches of every size, accepted and refused,
\* next to manual ingests
NextBatch == IngestText \/ ExtractText

SpecBatch == Init /\ [][NextBatch]_vars

\* ---- SpecRace: entries are ingested, deleted and restored, and then
\* MaxCallers requests, each an update or a soft-delete, run with their index
\* calls interleaved
RaceCategories == {NoVal, "Billing"}
RaceTags == {NoTags, <<"x">>}

IngestRace ==
    /\ HasRoom(1, MaxEdited)
    /\ IngestKnowledge(<<"hello">>, clock, "Policy", <<"a", "b">>, NoVal, NoVal, NoPrediction,
                       0, TRUE, TRUE)

\* deletes and restores that ran before the concurrent requests arrived
DeleteRace ==
    /\ \A c \in Callers : inflight[c].phase = "idle"
    /\ \E id \in DOMAIN collection : DeleteKnowledgeEntry(id, TRUE)

RestoreRace ==
    /\ \A c \in Callers : inflight[c].phase = "idle"
    /\ \E id \in DOMAIN collection : RestoreKnowledgeEntry(id, TRUE)

UpdateGet ==
    \E c \in Callers, id \in RequestIds, category \in RaceCategories, tags \in RaceTags :
        UpdateEntryGet(c, id, UpdatesOf(category, tags))

DeleteGet == \E c \in Callers, id \in RequestIds : DeleteEntryGet(c, id)

Write == \E c \in Callers : EntryUpdate(c)

NextRace == IngestRace \/ DeleteRace \/ RestoreRace \/ UpdateGet \/ DeleteGet \/ Write

SpecRace == Init /\ [][NextRace]_vars

\* ---- SpecRetry: the four client methods, called with every max_retries up
\* to MaxRetryArg and every pattern of failing and succeeding attempts
RetryCall ==
    \E method \in GatewayMethods, empty \in BOOLEAN, max_retries \in 0..MaxRetryArg :
        \E fails \in [1..max_retries -> BOOLEAN] :
            GatewayCall(method, empty, max_retries, fails)

NextRetry == RetryCall

SpecRetry == Init /\ [][NextRetry]_vars

\* ---- SpecTracker: a LearningService that starts empty, or loads the files
\* an earlier run left after EventCap - 1 or EventCap events of one kind,
\* and then records up to MaxLearn events of every kind.
LearningOld == [category |-> "billing", tags |-> {"refund"}]

LearningNews == [category : {"billing", "policy"}, tags : {{}, {"refund"}, {"refund", "vip"}}]

\* the service after n calls of log_learning_event with the same new_data,
\* for SeriesCap <= n <= EventCap: the error rate of point k is 0.05 * (k + 1)
\* capped at 1.0 when each event holds a correction, and otherwise has been at
\* its floor since the sixteenth event
LoadedAfter(n, new_data) ==
    LET changes == LearningChanges(LearningOld, new_data)
        correction_count == CorrectionCount(changes)
        ErrorAt(k) == IF correction_count > 0
                      THEN Min2(Rate(ErrorStep) * (k + 1), RateScale)
                      ELSE Rate(ErrorFloor)
    IN [events |-> [i \in 1..n |->
                      [id |-> n + 1 - i, entry_id |-> "e1", timestamp |-> n + 1 - i,
                       source |-> "user_correction", changes |-> changes,
                       impact_score |-> Len(changes) * 5]],
        stats |-> [total_corrections |-> n * correction_count,
                   accuracy_rate |-> RateScale - ErrorAt(n),
                   errors_over_time |->
                      [i \in 1..SeriesCap |->
                         [timestamp |-> n - SeriesCap + i,
                          error_rate |-> Round4(ErrorAt(n - SeriesCap + i)),
                          accuracy |-> Round4(RateScale - ErrorAt(n - SeriesCap + i))]]],
        recorded |-> n, session |-> 0]

\* LearningService.__init__ over the files of an earlier run
LoadedLearning ==
    {LoadedAfter(n, new_data) :
        n \in {EventCap - 1, EventCap},
        new_data \in {[category |-> "policy", tags |-> {"refund"}],
                      [category |-> "billing", tags |-> {"refund", "vip"}]}}

InitTracker ==
    /\ collection = <<>>
    /\ mergesMetadata \in BOOLEAN
    /\ clock = 0
    /\ resp = Resp("none", "returned", 0, 0, <<>>, 0)
    /\ queryLog = <<>>
    /\ learningHistory = <<>>
    /\ gatewayCalls = {}
    /\ lastToggle = [i \in Ids |-> "none"]
    /\ queriesProcessed = 0
    /\ inflight = [c \in Callers |-> IdleCall]
    /\ learning \in {FreshLearning} \cup LoadedLearning

LogLearningEvent ==
    \E new_data \in LearningNews :
        /\ learning.session < MaxLearn
        /\ learning' = log_learning_event(learning, "e1", LearningOld, new_data,
                                          "user_correction")
        /\ resp' = Resp("log_learning_event",
                        IF LearningChanges(LearningOld, new_data) = <<>>
                        THEN "none" ELSE "recorded", 0, 0, <<>>, 0)
        /\ UNCHANGED <<collection, mergesMetadata, clock, queryLog, learningHistory,
                       gatewayCalls, lastToggle, queriesProcessed, inflight>>

NextTracker == LogLearningEvent

SpecTracker == InitTracker /\ [][NextTracker]_vars

\* ---- SpecFewShot: entries of either status are indexed, soft-deleted and
\* restored, and the few-shot lookup of the analyze route runs in between.
RestoreIndexed == \E id \in DOMAIN collection : RestoreKnowledgeEntry(id, TRUE)

FewShotLookup == \E q \in Vectors, n \in {1, FewShotN} : FindSimilarVerified(q, n)

NextFewShot == AddEntry \/ DeleteIndexed \/ RestoreIndexed \/ FewShotLookup

SpecFewShot == Init /\ [][NextFewShot]_vars

\* ---- SpecQuery: queries through the service and through the route, over a
\* store of entries near to and far from the query, with each step of the
\* query failing or not
Queries == {"", " ", "how"}

AddForQuery ==
    /\ HasRoom(1, MaxEntries)
    /\ \E embedding \in Vectors :
        AddKnowledge(<<"policy">>, embedding, "unverified", TRUE)

QueryInputs ==
    [query : Queries, embOK : BOOLEAN, dbOK : BOOLEAN, logOK : BOOLEAN,
     fmtFail : {{}, DOMAIN collection}]

ServiceQuery ==
    \E i \in QueryInputs : QueryService(i.query, 0, i.embOK, i.dbOK, i.fmtFail, i.logOK)

RouteQuery ==
    \E i \in QueryInputs, verified_only \in BOOLEAN :
        QueryKnowledgeRoute(i.query, verified_only, 0, i.embOK, i.dbOK, i.fmtFail, i.logOK)

NextQuery == AddForQuery \/ ServiceQuery \/ RouteQuery

SpecQuery == Init /\ [][NextQuery]_vars

\* ---- SpecLearn: manual ingests that carry an AI prediction next to the
\* human's final category and tags, with the embedding or the store failing
\* or not, besides chat extraction
Predictions ==
    {NoPrediction,
     [given |-> TRUE, category |-> "Policy", tags |-> <<"a", "b">>],
     [given |-> TRUE, category |-> "Procedure", tags |-> <<"c", "b", "a">>]}

HumanCategories == {"Policy", "Procedure"}

HumanTags == {<<"a">>, <<"a", "b">>, <<"a", "b", "c">>}

IngestCorrected ==
    /\ HasRoom(1, MaxEntries)
    /\ \E text \in {<<>>, <<"hello">>}, category \in HumanCategories, tags \in HumanTags,
          ai \in Predictions, embOK \in BOOLEAN, dbOK \in BOOLEAN :
        IngestKnowledge(text, clock, category, tags, NoVal, NoVal, ai, 0, embOK, dbOK)

ExtractSome ==
    \E cands \in CandidateSeqs({<<>>, <<"answer">>}) :
        /\ HasRoom(Len(cands), MaxEntries)
        /\ ProcessChatLogs(1, <<"hello">>, TRUE, cands, TRUE)

NextLearn == IngestCorrected \/ ExtractSome

SpecLearn == Init /\ [][NextLearn]_vars

\* ---- SpecAnalyze: analysis calls over every kind of model response on each
\* attempt, besides the analyze route
ModelResponses ==
    {[kind |-> "json", category |-> "Policy", tags |-> TagsValue("list", <<"hr", "leave">>)],
     [kind |-> "json", category |-> "HR / Leave", tags |-> TagsValue("list", <<>>)],
     [kind |-> "json", category |-> "Policy", tags |-> TagsValue("list", <<"hr">>)],
     [kind |-> "json", category |-> NoVal, tags |-> TagsValue("absent", <<>>)],
     [kind |-> "json", category |-> "Policy", tags |-> TagsValue("str", <<"h">>)],
     [kind |-> "json", category |-> "Policy", tags |-> TagsValue("null", <<>>)],
     [kind |-> "text", category |-> NoVal, tags |-> TagsValue("absent", <<>>)],
     [kind |-> "braces", category |-> NoVal, tags |-> TagsValue("absent", <<>>)]}

AnalyzeCall ==
    \E text \in Texts, responses \in [1..MaxRetries -> ModelResponses] :
        AnalyzeContentCall(text, responses)

NextAnalyze == AnalyzeCall \/ Analyze

SpecAnalyze == Init /\ [][NextAnalyze]_vars

\* ---- SpecRecent: the recent / recycle-bin listing over a store that is
\* either new or was persisted with FetchCap soft-deleted entries, while
\* entries are ingested, deleted and restored
PersistedIds == {MaxEntries + MaxIndexed + i : i \in 1..FetchCap}

\* the persisted collection PersistentClient opens: old entries, all
\* soft-deleted, each older than the next
PersistedBin ==
    [i \in PersistedIds |->
        [document |-> <<"old">>, embedding |-> 0,
         metadata |-> [BlankMeta EXCEPT !.type = "manual_ingestion",
                                        !.timestamp = 0 - i,
                                        !.verification_status = "verified_human",
                                        !.is_deleted = "True",
                                        !.deleted_at = 0 - i]]]

InitRecent ==
    /\ collection \in {<<>>, PersistedBin}
    /\ mergesMetadata \in BOOLEAN
    /\ clock = 0
    /\ resp = Resp("none", "returned", 0, 0, <<>>, 0)
    /\ queryLog = <<>>
    /\ learningHistory = <<>>
    /\ gatewayCalls = {}
    /\ lastToggle = [i \in Ids |-> "none"]
    /\ queriesProcessed = 0
    /\ inflight = [c \in Callers |-> IdleCall]
    /\ learning = FreshLearning

IngestRecent ==
    /\ Cardinality(DOMAIN collection \cap Ids) < MaxEdited
    /\ IngestKnowledge(<<"hello">>, clock, "Policy", <<"a", "b">>, NoVal, NoVal, NoPrediction,
                       0, TRUE, TRUE)

DeleteRecent == \E id \in DOMAIN collection \cap Ids : DeleteKnowledgeEntry(id, TRUE)

RestoreRecent == \E id \in DOMAIN collection \cap Ids : RestoreKnowledgeEntry(id, TRUE)

RecentLimits == {1, FetchCap + MaxEdited}

Recent ==
    \E limit \in RecentLimits, deleted_only \in BOOLEAN, dbOK \in BOOLEAN :
        GetRecentKnowledge(limit, deleted_only, dbOK)

NextRecent == IngestRecent \/ DeleteRecent \/ RestoreRecent \/ Recent

SpecRecent == InitRecent /\ [][NextRecent]_vars

\* ---- SpecRedact: anonymize_text applied to a text, and applied again to
\* what it returned
MaxTokens == 5

RedactTokens ==
    {"participant", "employee", "ID:", "UID:", "AB123", "ab_cd",
     "a@b.com", "555-123-4567", "123-45-6789", "Agent_Bob", "Lead_Ann", "hello"}

RedactTexts == UNION {[1..n -> RedactTokens] : n \in 0..MaxTokens}

\* a caller holds a text it is about to pass to anonymize_text
InitRedact ==
    /\ collection = <<>>
    /\ mergesMetadata \in BOOLEAN
    /\ clock = 0
    /\ \E text \in RedactTexts :
          resp = Resp("text", "returned", 0, 0, <<[text |-> text, anonymized |-> text]>>, 0)
    /\ queryLog = <<>>
    /\ learningHistory = <<>>
    /\ gatewayCalls = {}
    /\ lastToggle = [i \in Ids |-> "none"]
    /\ queriesProcessed = 0
    /\ inflight = [c \in Callers |-> IdleCall]
    /\ learning = FreshLearning

AnonymizeCall(text, op) ==
    /\ resp' = Resp(op, "returned", 0, 0,
                    <<[text |-> text, anonymized |-> anonymize_text(text)]>>, 0)
    /\ UNCHANGED <<collection, mergesMetadata, clock, queryLog, learningHistory,
                   gatewayCalls, lastToggle, queriesProcessed, inflight, learning>>

\* anonymize_text(x)
Anonymize ==
    /\ resp.op = "text"
    /\ AnonymizeCall(resp.results[1].text, "anonymize_text")

\* anonymize_text(anonymize_text(x))
AnonymizeAgain ==
    /\ resp.op = "anonymize_text"
    /\ AnonymizeCall(resp.results[1].anonymized, "anonymize_again")

NextRedact == Anonymize \/ AnonymizeAgain

SpecRedact == InitRedact /\ [][NextRedact]_vars

\* ------------------------------------------------------------------ claims
Status(id) == collection[id].metadata.verification_status

ResultIds == {resp.results[i].id : i \in 1..Len(resp.results)}

\* C1: a default search (include_deleted = false) never returns an entry whose
\* last delete / restore was a soft-delete, and an entry whose last one was a
\* restore passes the default filter again.
C1_SearchHidesDeleted ==
    /\ (resp.op = "search" /\ resp.outcome = "returned") =>
          \A id \in ResultIds : lastToggle[id] # "deleted"
    /\ \A id \in DOMAIN collection :
          lastToggle[id] = "restored" => MatchesWhere(collection[id].metadata, FALSE, FALSE)

\* a search that returns a restored entry while another entry is soft-deleted
C1_Witness ==
    /\ resp.op = "search" /\ resp.outcome = "returned"
    /\ \E id \in ResultIds : lastToggle[id] = "restored"
    /\ \E id \in DOMAIN collection : lastToggle[id] = "deleted" /\ id \notin ResultIds

\* C2: every list search returns has all verified_human entries before all
\* others, whatever their similarity, and non-increasing similarity inside
\* each of the two groups.
C2_VerifiedFirstThenSimilarity ==
    (resp.op \in {"search", "search_all"} /\ resp.outcome = "returned") =>
        \A i, j \in 1..Len(resp.results) :
            i < j =>
              LET a == resp.results[i]
                  b == resp.results[j]
                  va == a.metadata.verification_status = "verified_human"
                  vb == b.metadata.verification_status = "verified_human"
              IN /\ (vb => va)
                 /\ (va = vb => a.similarity_score >= b.similarity_score)

\* a verified entry ranked above an unverified one of strictly higher
\* similarity, with a second verified entry behind it in similarity order
C2_Witness ==
    /\ resp.op = "search" /\ Len(resp.results) = 3
    /\ resp.results[1].metadata.verification_status = "verified_human"
    /\ resp.results[2].metadata.verification_status = "verified_human"
    /\ resp.results[3].metadata.verification_status # "verified_human"
    /\ resp.results[1].similarity_score > resp.results[2].similarity_score
    /\ resp.results[3].similarity_score > resp.results[2].similarity_score

\* C3: on the manual-ingest, analyze-only and chat-extraction paths, the text
\* sent to the embedding / generation gateway is the redacted form of the text
\* the caller gave, and the document a manual ingest stores is the redacted
\* form of its text.
C3_RedactedBeforeUse ==
    /\ \A c \in gatewayCalls :
          c.path \in {"ingest", "analyze", "chat"} => c.sent = anonymize_text(c.raw)
    /\ \A id \in DOMAIN collection :
          collection[id].metadata.type = "manual_ingestion" =>
              \E c \in gatewayCalls :
                  c.path = "ingest" /\ collection[id].document = anonymize_text(c.raw)

\* C4: verification_status is monotone: an entry that is verified_human stays
\* verified_human over every operation, and whenever an entry's status changes
\* the new status is verified_human.
C4_StatusMonotone ==
    [][\A id \in DOMAIN collection :
          /\ id \in DOMAIN collection'
          /\ Status(id) = "verified_human" =>
                collection'[id].metadata.verification_status = "verified_human"
          /\ collection'[id].metadata.verification_status # Status(id) =>
                collection'[id].metadata.verification_status = "verified_human"]_vars

\* an extracted entry that an update verified and that was then deleted and restored
C4_Witness ==
    \E id \in DOMAIN collection :
        /\ collection[id].metadata.entry_type = "qa"
        /\ Status(id) = "verified_human"
        /\ lastToggle[id] = "restored"

\* C5: a successful update of an entry sets verification_status to
\* verified_human, overwrites each supplied field (tags as the comma-joined
\* string; a supplied screenshot also sets has_screenshot), leaves every other
\* metadata field, the document and the embedding as they were, and leaves
\* every other entry alone.
C5_PartialUpdate ==
    [][(resp'.op = "update" /\ resp'.status = 200) =>
       \A id \in DOMAIN collection, category \in UpdCategories, tags \in UpdTags,
          summary \in UpdSummaries, screenshot \in UpdScreenshots :
          UpdateKnowledgeEntry(id, category, tags, summary, screenshot, TRUE) =>
            LET old == collection[id]
                new == collection'[id]
                supplied == (IF category # NoVal THEN {"category"} ELSE {})
                            \cup (IF tags # NoTags THEN {"tags"} ELSE {})
                            \cup (IF summary # NoVal THEN {"summary"} ELSE {})
                            \cup (IF screenshot # NoVal THEN {"screenshot", "has_screenshot"}
                                  ELSE {})
            IN /\ DOMAIN collection' = DOMAIN collection
               /\ new.metadata.verification_status = "verified_human"
               /\ category # NoVal => new.metadata.category = category
               /\ tags # NoTags => new.metadata.tags = JoinTags(tags)
               /\ summary # NoVal => new.metadata.summary = summary
               /\ screenshot # NoVal => /\ new.metadata.screenshot = screenshot
                                        /\ new.metadata.has_screenshot = "True"
               /\ \A k \in MetaKeys \ (supplied \cup {"verification_status"}) :
                     new.metadata[k] = old.metadata[k]
               /\ new.document = old.document
               /\ new.embedding = old.embedding
               /\ \A other \in DOMAIN collection \ {id} :
                     collection'[other] = collection[other]]_vars

\* an extracted, not yet verified entry after an update that supplied only
\* tags: verified, tagged, its type and document as extraction left them
C5_Witness ==
    /\ resp.op = "update" /\ resp.status = 200
    /\ \E id \in DOMAIN collection :
          /\ collection[id].metadata.entry_type = "qa"
          /\ collection[id].document = <<"answer">>
          /\ Status(id) = "verified_human"
          /\ collection[id].metadata.tags = "x"
          /\ collection[id].metadata.category = NoVal
          /\ collection[id].metadata.summary = NoVal
          /\ collection[id].metadata.screenshot = NoVal

\* C6: for every entry, deleted_at is set iff is_deleted is true.
C6_DeletedAtIffDeleted ==
    \A id \in DOMAIN collection :
        (collection[id].metadata.deleted_at # NoTime) <=>
            (collection[id].metadata.is_deleted = "True")

\* C7: a delete or restore leaves every entry's document, embedding and every
\* metadata field other than is_deleted and deleted_at as they were, and adds
\* or removes no entry.
C7_ToggleFrame ==
    [][resp'.op \in {"delete", "restore"} =>
          /\ DOMAIN collection' = DOMAIN collection
          /\ \A id \in DOMAIN collection :
                /\ collection'[id].document = collection[id].document
                /\ collection'[id].embedding = collection[id].embedding
                /\ \A k \in MetaKeys \ {"is_deleted", "deleted_at"} :
                      collection'[id].metadata[k] = collection[id].metadata[k]]_vars

\* a successful restore of a verified entry that carries tags
C7_Witness ==
    /\ resp.op = "restore" /\ resp.status = 200
    /\ \E id \in DOMAIN collection :
          /\ lastToggle[id] = "restored"
          /\ Status(id) = "verified_human"
          /\ collection[id].metadata.tags = "x"

\* C8: the query log has exactly one entry per query processed (every query
\* that was not rejected as blank), whether or not its embedding or its store
\* search failed, and the entry of a query that returned nothing has
\* result_count = 0 and has_results = false.
C8_OneLogEntryPerQuery ==
    /\ Len(queryLog) = queriesProcessed
    /\ \A i \in 1..Len(queryLog) :
          queryLog[i].has_results = (queryLog[i].result_count > 0)

\* C9: a non-blank query is always answered with a returned result and no
\* server error, and when the embedding, the store search, the formatting or
\* the log write failed, the results list is empty.
C9_QueryNeverFails ==
    (resp.op \in {"query", "query_route"} /\ resp.note \notin {"ValueError", "validation"}) =>
        /\ resp.outcome = "returned"
        /\ resp.status < 500
        /\ (resp.note # "" => resp.results = <<>>)

\* C10: a delete, restore or update that names an id not in the store is
\* answered with a client error (4xx).
C10_UnknownIdClientError ==
    resp.note = "unknown_id" => (resp.status >= 400 /\ resp.status < 500)

\* C11: an ingest whose embedding generation failed answers 500 and leaves
\* the store and the learning history as they were, and every entry in the
\* store has an embedding (never the empty vector).
C11_NoEmbeddingNoWrite ==
    [][/\ (resp'.op = "ingest" /\ resp'.note = "embedding") =>
              /\ resp'.status = 500
              /\ collection' = collection
              /\ learningHistory' = learningHistory
       /\ \A id \in DOMAIN collection' :
              collection'[id].embedding \in Vectors]_vars

\* an ingest refused for its embedding, after an earlier ingest was stored and
\* its correction recorded
C11_Witness ==
    /\ resp.op = "ingest" /\ resp.note = "embedding" /\ resp.status = 500
    /\ \E id \in DOMAIN collection : collection[id].metadata.type = "manual_ingestion"
    /\ Len(learningHistory) = 1
    /\ Cardinality(DOMAIN collection) < MaxEntries

\* C12: an analysis of non-empty text returns a result, whatever the model
\* answered, and the tags of the result are a list of at least 2 elements.
C12_AnalyzeAlwaysTwoTags ==
    (resp.op = "analyze_content" /\ resp.note # "ValueError") =>
        /\ resp.outcome = "returned"
        /\ resp.results[1].tags.type = "list"
        /\ Len(resp.results[1].tags.items) >= 2

C14_ChangesAreTheDiff ==
    \A n \in 1..Len(learningHistory) :
        LET e == learningHistory[n]
            changes == FormattedChanges(e)
            cats == {i \in 1..Len(changes) : changes[i].field = "category"}
            tgs == {i \in 1..Len(changes) : changes[i].field = "tags"}
            added == e.human_correction.tags \ e.ai_prediction.tags
        IN /\ Cardinality(cats) = (IF e.ai_prediction.category # e.human_correction.category
                                   THEN 1 ELSE 0)
           /\ \A i \in cats : /\ changes[i].type = "correction"
                              /\ changes[i].old = e.ai_prediction.category
                              /\ changes[i].new = e.human_correction.category
           /\ Cardinality(tgs) = (IF added # {} THEN 1 ELSE 0)
           /\ \A i \in tgs : changes[i].type = "refinement" /\ changes[i].added = added

\* C15: every query of a non-blank text that returns zero matches adds one to
\* the count the gap report gives for exactly that text, so a text queried n
\* times without a match is reported with count = n.
C15_GapCountsEveryEmptyQuery ==
    [][(resp'.op = "query" /\ resp'.outcome = "returned" /\ resp'.results = <<>>) =>
       \A i \in QueryInputs :
          (~IsBlank(i.query)
             /\ QueryService(i.query, 0, i.embOK, i.dbOK, i.fmtFail, i.logOK)) =>
            LET before == {g \in GapItems(queryLog, GapWindowDays, clock) :
                              g.query = i.query}
                n == IF before = {} THEN 0 ELSE (CHOOSE g \in before : TRUE).count
            IN \A report \in get_knowledge_gaps(queryLog', GapLimit, GapWindowDays, clock') :
                  \E g \in report : g.query = i.query /\ g.count = n + 1]_vars

\* C16: every entry a chat extraction adds is stored with verification_status
\* unverified or draft and not deleted, and every entry a manual ingest adds is
\* stored with verification_status verified_human and not deleted.
C16_CreationStatus ==
    [][\A id \in DOMAIN collection' \ DOMAIN collection :
          LET meta == collection'[id].metadata
          IN /\ meta.is_deleted # "True"
             /\ resp'.op = "process_chat_logs" =>
                    meta.verification_status \in {"unverified", "draft"}
             /\ resp'.op = "ingest" => meta.verification_status = "verified_human"]_vars

\* C17: the results of a query are those of the store search made with the
\* caller's verified_only flag: with the flag set only verified_human entries,
\* without it entries of any status.
C17_CallerFlagApplied ==
    [][resp'.op = "query_route" =>
       \A query \in Queries \ {"", " "}, verified_only \in BOOLEAN :
          QueryKnowledgeRoute(query, verified_only, 0, TRUE, TRUE, {}, TRUE) =>
            /\ \E ms \in search(collection, 0, DefaultTopK, DefaultThreshold,
                                verified_only, FALSE) :
                  resp'.results = FormatMatches(ms, {})
            /\ verified_only =>
                  \A i \in 1..Len(resp'.results) :
                     Status(resp'.results[i].knowledge_id) = "verified_human"]_vars

\* C18: a listing whose limit is at least the number of entries in the state
\* it asks for (deleted or active) contains every entry whose last toggle put
\* it in that state; no listing contains an entry whose last toggle put it in
\* the other state; and every listing is ordered newest first.
C18_RecentFollowsToggle ==
    [][\A limit \in RecentLimits, deleted_only \in BOOLEAN :
          GetRecentKnowledge(limit, deleted_only, TRUE) =>
            LET listed == {resp'.results[i].id : i \in 1..Len(resp'.results)}
                inState == {id \in DOMAIN collection :
                               (collection[id].metadata.is_deleted = "True") = deleted_only}
                toggled == {id \in DOMAIN collection \cap Ids : lastToggle[id] # "none"}
            IN /\ \A x \in toggled :
                     /\ (lastToggle[x] = "deleted") # deleted_only => x \notin listed
                     /\ ((lastToggle[x] = "deleted") = deleted_only
                           /\ limit >= Cardinality(inState)) => x \in listed
               /\ \A i, j \in 1..Len(resp'.results) :
                     i < j => resp'.results[i].metadata.timestamp
                                >= resp'.results[j].metadata.timestamp]_vars

\* C19: redaction is idempotent: redacting a text that redaction returned
\* gives that text back, also when a sentinel is followed by ID-like text.
C19_RedactIdempotent ==
    resp.op = "anonymize_again" => resp.results[1].anonymized = resp.results[1].text

\* the id values the participant, employee and generic ID patterns match
\* while text is redacted, each in the text the earlier patterns left
MatchedIds(text) ==
    LET a1 == SubToken(IsEmail, "[EMAIL_REDACTED]", text)
        a2 == SubToken(IsPhone, "[PHONE_REDACTED]", a1)
        a3 == SubToken(IsSsn, "[SSN_REDACTED]", a2)
        a4 == SubParticipantId(a3)
        a5 == SubEmployeeId(a4)
    IN participant_matches(a3) \cup employee_matches(a4) \cup generic_matches(a5)

Occurrences(v, s) == Cardinality({i \in 1..Len(s) : s[i] = v})

\* C20: every email, phone, SSN and ID match is replaced by its sentinel:
\* the redacted text holds no email, phone or SSN, and an id value that a
\* pattern matched, and that the text holds nowhere else, is not in it.
C20_MatchesBecomeSentinels ==
    resp.op = "anonymize_text" =>
        LET text == resp.results[1].text
            out == resp.results[1].anonymized
        IN /\ \A i \in 1..Len(out) : ~IsEmail(out[i]) /\ ~IsPhone(out[i]) /\ ~IsSsn(out[i])
           /\ \A v \in MatchedIds(text) :
                 Occurrences(v, text) = 1 => Occurrences(v, out) = 0

\* C21: a chat-log batch of more than BatchCap messages is answered with a
\* client error, and no gateway call is made and the store, the query log
\* and the learning history stay as they were.
C21_OversizedBatchRejected ==
    [][resp'.op = "process_chat_logs" =>
       \A content \in Texts, extractOK \in BOOLEAN, cands \in CandidateSeqs({<<"answer">>}) :
          ProcessChatLogs(BatchCap + 1, content, extractOK, cands, TRUE) =>
             /\ resp'.status \in 400..499
             /\ UNCHANGED <<collection, gatewayCalls, queryLog, learningHistory,
                            queriesProcessed>>]_vars

\* an oversized batch was refused while the store holds an entry and the
\* gateway has been called
C21_Witness ==
    /\ resp.op = "process_chat_logs"
    /\ resp.status \in {400, 422}
    /\ collection # <<>>
    /\ gatewayCalls # {}

C23_RetryPolicy ==
    (resp.op \in GatewayMethods /\ ~resp.results[1].empty /\ resp.results[1].max_retries >= 1) =>
        LET r == resp.results[1]
            N == r.max_retries
            good == {k \in 1..N : ~r.fails[k]}
        IN /\ r.attempts \in 1..N
           /\ \A k \in 1..(r.attempts - 1) : r.fails[k]
           /\ r.sleeps = [k \in 1..(r.attempts - 1) |-> Pow2(k - 1)]
           /\ IF good # {}
              THEN /\ resp.outcome = "returned"
                   /\ r.attempts \in good
                   /\ r.value = r.attempts
              ELSE /\ resp.outcome = "raised"
                   /\ r.attempts = N

\* a call with the default max_retries whose three attempts all failed
C23_Witness ==
    /\ resp.op \in GatewayMethods
    /\ ~resp.results[1].empty
    /\ resp.results[1].max_retries = MaxRetries
    /\ \A k \in 1..MaxRetries : resp.results[1].fails[k]
    /\ resp.outcome = "raised"
    /\ resp.results[1].sleeps = <<1, 2>>

\* the four steps in the order stated: the top_k nearest of the whole index,
\* the threshold, the is_deleted / verified filter, the re-rank
FourStepSearch(coll, q, top_k, threshold, verified_only, include_deleted) ==
    {SortMatches(SelectSeq(AboveThreshold(coll, q, ids, threshold),
                           LAMBDA m : MatchesWhere(m.metadata, verified_only, include_deleted)))
        : ids \in CollectionQuery(coll, q, top_k, FALSE, TRUE)}

\* C24 as stated: what search returns is a result of the four steps taken
\* in that order, so an entry the filter rejects takes one of the top_k slots.
C24_FourStepOrder ==
    [][(resp.op = "search_request" /\ resp'.op = "search") =>
       LET request == resp.results[1]
       IN resp'.results \in FourStepSearch(collection, request.q, request.top_k,
                                           request.threshold, request.verified_only,
                                           FALSE)]_vars

\* C24: search filters first: its matches are the entries that pass the
\* is_deleted / verified filter, are among the top_k nearest of the entries
\* that pass it, and reach the threshold, re-ranked; an entry the filter
\* rejects takes no slot.
C24_FilterThenTopK ==
    [][(resp.op = "search_request" /\ resp'.op = "search") =>
       LET request == resp.results[1]
           ms == resp'.results
           R == {ms[i].id : i \in 1..Len(ms)}
           P == {id \in DOMAIN collection :
                   /\ collection[id].metadata.is_deleted # "True"
                   /\ request.verified_only =>
                         collection[id].metadata.verification_status = "verified_human"}
           near(id) == Distance(request.q, collection[id].embedding)
           reaches(id) == SimilarityScore(near(id)) >= request.threshold
       IN /\ R \subseteq P
          /\ Cardinality(R) = Len(ms) /\ Len(ms) <= request.top_k
          /\ \A i \in 1..Len(ms) : ms[i] = MatchOf(collection, request.q, ms[i].id)
          /\ \A id \in R : reaches(id)
          /\ \A x \in P \ R :
                reaches(x) =>
                   /\ Len(ms) = request.top_k
                   /\ \A r \in R : near(r) <= near(x)
          /\ ms = SortMatches(ms)]_vars

\* a search returned one entry although a soft-deleted entry lies nearer to
\* the query
C24_Witness ==
    /\ resp.op = "search" /\ Len(resp.results) = 1
    /\ \E id \in DOMAIN collection :
          /\ collection[id].metadata.is_deleted = "True"
          /\ \A q \in Vectors :
                SimilarityScore(Distance(q, collection[resp.results[1].id].embedding))
                      = resp.results[1].similarity_score
                   => Distance(q, collection[id].embedding)
                         < Distance(q, collection[resp.results[1].id].embedding)

\* C25: after every step each entry's embedding is the gateway's embedding of
\* its content, and a call of update_entry that carries content and no
\* embedding leaves every stored content as it was.
C25_ContentMatchesEmbedding ==
    [][/\ \A id \in DOMAIN collection' :
             collection'[id].embedding = EmbeddingOf(collection'[id].document)
       /\ (resp'.op = "update_entry" /\ resp'.note = "content_only") =>
             \A id \in DOMAIN collection :
                collection'[id].document = collection[id].document]_vars

\* C26: the error rate, 1 - accuracy_rate, starts at 0.05; a recorded update
\* that contains a correction moves it to min(error + 0.05, 1.0), any other
\* recorded update to max(error * 0.9, 0.01); it is within [0.01, 1.0] in
\* every state, and the accuracy of the newest point of the series is one
\* minus its error rate.
ErrorRate(l) == RateScale - l.stats.accuracy_rate

C26_ErrorRateRecurrence ==
    [][/\ ErrorRate(FreshLearning) = Rate(5)
       /\ ErrorRate(learning) >= Rate(1) /\ ErrorRate(learning) <= RateScale
       /\ ErrorRate(learning') >= Rate(1) /\ ErrorRate(learning') <= RateScale
       /\ learning'.recorded # learning.recorded =>
            LET changes == learning'.events[1].changes
                error == ErrorRate(learning)
                series == learning'.stats.errors_over_time
                point == series[Len(series)]
            IN /\ (\E i \in 1..Len(changes) : changes[i].type = "correction") =>
                     ErrorRate(learning') = Min2(error + Rate(5), RateScale)
               /\ (\A i \in 1..Len(changes) : changes[i].type # "correction") =>
                     /\ (error * 9) % 10 = 0
                     /\ ErrorRate(learning') = Max2((error * 9) \div 10, Rate(1))
               /\ point.error_rate = Round4(ErrorRate(learning'))
               /\ point.accuracy = RateScale - point.error_rate]_vars

\* a service loaded after a long run of refinements records one more
\* refinement, floored at 0.01, and then a correction, which takes it to 0.06
C26_Witness ==
    /\ learning.session = 2
    /\ learning.recorded > EventCap
    /\ learning.stats.total_corrections = 1
    /\ \E j \in 1..Len(learning.events[1].changes) :
          learning.events[1].changes[j].type = "correction"
    /\ ErrorRate(learning) = Rate(6)

\* C27 as stated: the series holds at most 50 points and the event log at
\* most 100 events, and both hold exactly the most recently recorded items,
\* each in the order of recording.
C27_RetainedInRecordingOrder ==
    LET series == learning.stats.errors_over_time
        events == learning.events
    IN /\ Len(series) <= 50
       /\ Len(events) <= 100
       /\ \A i \in 1..Len(series) : series[i].timestamp = learning.recorded - Len(series) + i
       /\ \A i \in 1..Len(events) : events[i].timestamp = learning.recorded - Len(events) + i

\* C27: the series holds the last min(recorded, 50) points, oldest first;
\* the event log holds the last min(recorded, 100) events, newest first.
C27_RetainedMostRecent ==
    LET series == learning.stats.errors_over_time
        events == learning.events
    IN /\ Len(series) = Min2(learning.recorded, 50)
       /\ Len(events) = Min2(learning.recorded, 100)
       /\ \A i \in 1..Len(series) : series[i].timestamp = learning.recorded - Len(series) + i
       /\ \A i \in 1..Len(events) : events[i].timestamp = learning.recorded + 1 - i

\* events were recorded past both caps in this run: the oldest were dropped
C27_Witness ==
    /\ learning.session >= 2
    /\ learning.recorded > 100
    /\ Len(learning.events) = 100
    /\ Len(learning.stats.errors_over_time) = 50
    /\ learning.events[100].timestamp > 1

\* C28: every recorded event adds exactly one to total_corrections, whatever
\* its changes are, so total_corrections is the number of events recorded.
C28_TotalCountsEvents ==
    [][learning'.recorded = learning.recorded + 1 =>
          /\ learning'.stats.total_corrections = learning.stats.total_corrections + 1
          /\ learning'.stats.total_corrections = learning'.recorded]_vars

\* C29: the events kept in the log have pairwise distinct ids.
C29_DistinctIds ==
    \A i, j \in 1..Len(learning.events) :
        learning.events[i].id = learning.events[j].id => i = j

\* C30: every entry find_similar_verified returns is verified_human and is
\* not soft-deleted.
C30_FewShotSkipsDeleted ==
    resp.op = "find_similar_verified" =>
        \A i \in 1..Len(resp.results) :
            /\ resp.results[i].metadata.verification_status = "verified_human"
            /\ resp.results[i].metadata.is_deleted # "True"

====
